---- MODULE Spec2Model ----
(***************************************************************************)
(* Verification model of tab-election.                                     *)
(*                                                                         *)
(* Part 1: the lock-based Tab class (src/src/index.ts, lines 35-250).      *)
(* Every Tab of one namespace shares one Web Lock ("tab-<name>") and one   *)
(* BroadcastChannel name.  A tab is single threaded: each action below is  *)
(* one task of a tab's event loop (a public method call, a lock callback,  *)
(* a promise continuation, a timer, a message event), or one step of the   *)
(* lock manager.  A request a tab makes to the lock manager takes effect   *)
(* in the same step; what the lock manager sends back to a tab (the grant  *)
(* callback, the settled request promise) is a later step of that tab.     *)
(***************************************************************************)
EXTENDS Integers, Sequences, FiniteSets, TLC

(***************************************************************************)
(* Bounds                                                                  *)
(***************************************************************************)
NumTabs == 2
\* the number of waitForLeadership, call, setState and close invocations of a
\* behaviour, for each specification
LockTerms == 3
LockCloses == 2
StateTerms == 2
StateSets == 2
StateCloses == 1
CallTerms == 2
CallCalls == 1
CallCloses == 1
PairTerms == 1
PairCalls == 2
QueueTerms == 1
QueueCalls == 3
RelayTerms == 1
RelayCalls == 2
JoinTerms == 3
JoinSets == 1
SendTerms == 2
SendSends == 2
SendCloses == 1
\* the time that passes in one step of the clock
TickMs == 15000
\* the heartbeat variant: peers, messages waiting on a channel and pending
\* onTabPromote callbacks when a heartbeat is sent, close() calls, crashes
NumPeers == 2
NumVoters == 3
AckCalls == 2
MaxPosts == 2
InFlight == 1
SettleCap == 0
BeatCloses == 1
BeatCrashes == 1
TwiceCloses == 2
BeatSendCloses == 1
BeatSends == 1
\* calls by dotted and other names: leadership terms, calls
DotTerms == 1
DotCalls == 2

CALL_TIMEOUT == 30000

Tabs == 1..NumTabs

(***************************************************************************)
(* JavaScript values.  Every value is a record of the same shape so that   *)
(* values of different JavaScript types can be compared.                   *)
(***************************************************************************)
Undef == [t |-> "undefined", n |-> 0, s |-> ""]
Null == [t |-> "null", n |-> 0, s |-> ""]
Num(n) == [t |-> "number", n |-> n, s |-> ""]
Str(s) == [t |-> "string", n |-> 0, s |-> s]
Err(m) == [t |-> "error", n |-> 0, s |-> m]
Obj(n) == [t |-> "object", n |-> n, s |-> ""]

\* JavaScript truthiness, as used by `if (error)` and `if (!to)`
Truthy(v) ==
  CASE v.t \in {"undefined", "null"} -> FALSE
    [] v.t = "number" -> v.n # 0
    [] v.t = "string" -> v.s # ""
    [] OTHER -> TRUE

\* String(v), as used by the template literal of the "Invalid API method" error
JSString(v) ==
  CASE v.t = "string" -> v.s
    [] v.t = "number" -> ToString(v.n)
    [] v.t = "undefined" -> "undefined"
    [] v.t = "null" -> "null"
    [] OTHER -> "[object]"

\* rest[i] of a JavaScript argument list: undefined beyond its length
Arg(rest, i) == IF i <= Len(rest) THEN rest[i] ELSE Undef
RestFrom(rest, i) == IF i <= Len(rest) THEN SubSeq(rest, i, Len(rest)) ELSE <<>>

ToAll == Str("all")
ToOthers == Str("others")
ToLeader == Str("leader")

\* createTabId(): the ids are taken to be distinct
Id(t) == Str("tab" \o ToString(t))

\* the Tab's initial state `{}` and the values setState is called with
InitialState == Obj(0)
StateValues == {Obj(1), Obj(2)}

(***************************************************************************)
(* The API a leader's initializer returns: echo(x) returns x, fail(x)      *)
(* throws x (or returns a promise rejected with x).  "nope" is not in it.  *)
(***************************************************************************)
ApiMethods == {"echo", "fail", "relay"}
CallNames == {"echo", "fail", "nope"}
CallArgs == {Num(0), Str("e")}
\* The own properties of that API object: besides the two functions it holds
\* an object under the key ns, which has a method m (as in `return { db }`).
ApiProperties ==
  [k \in ApiMethods \cup {"ns"} |-> IF k \in ApiMethods THEN "function" ELSE "object"]
\* the names called against it: a method, a method of ns, ns itself, and a
\* name that is no property
DotNames == {"echo", "ns.m", "ns", "nope"}

VARIABLES
  constructed,          \* constructed[t]: new Tab() has run
  isLeader,             \* _isLeader
  isLeaderReady,        \* _isLeaderReady
  api,                  \* _api: 0 for undefined/null, else the term whose initializer returned it
  state,                \* _state
  callDeferreds,        \* _callDeferreds: the call numbers with a pending entry
  queuedCalls,          \* _queuedCalls: a Map in insertion order
  relinquishLeadership, \* the function currently stored in relinquishLeadership
  open,                 \* the tab's current BroadcastChannel is not closed
  inbox,                \* inbox[d][s]: messages of sender s queued for d's channel
  lockHeld,             \* navigator.locks: holder of the lock "tab-<name>"
  lockQueue,            \* navigator.locks: queued requests, first in first out
  requests,             \* requests[t][k]: the k-th waitForLeadership invocation of t
  ctor,                 \* position of the constructor's hasLeader().then(...)
  calls,                \* calls[t][c]: the closure of the c-th call() of t
  running,              \* API method invocations whose promise is not settled
  stateEvents,          \* number of 'state' events dispatched on the tab
  messages,             \* the data of the 'message' events dispatched on the tab
  thrown,               \* the last error a public method threw synchronously
  lastSet,              \* the last setState that took effect, if leadership is as it was then
  readyAt,              \* budget.setStates when a tab last became a ready leader
  budget,               \* the public method calls the application may still make
  callerId,             \* _callerId: what getCurrentCallerId() returns
  peer,                 \* heartbeat variant: "none", "live", "closed" or "crashed"
  tabs,                 \* heartbeat variant: the membership table of each peer
  leaderId,             \* heartbeat variant: 0 for the empty string
  onLeadership,         \* heartbeat variant: the callback is still to be called
  hbApi,                \* heartbeat variant: how often onLeadership() has run
  channel,              \* heartbeat variant: the peer has an open channel
  hbInbox,              \* heartbeat variant: messages posted and not yet delivered
  heartbeatTimeout,     \* heartbeat variant: the next sendHeartbeat is scheduled
  reapTimer,            \* heartbeat variant: the PING_TIMEOUT callback of sendHeartbeat is pending
  settleTimers,         \* heartbeat variant: pending PING_TIMEOUT callbacks of onTabPromote
  leaderState,          \* heartbeat variant: the state a leader hands to newcomers
  closedAs,             \* heartbeat variant: whether a peer led when it went, and who was there
  hbBudget,             \* heartbeat variant: the close() calls and crashes still to come
  posted,               \* heartbeat variant: what the last step passed to channel.postMessage
  election,             \* heartbeat variant: one ELECTION among NumVoters peers and its PROMOTEs
  ack,                  \* Tab with call acknowledgement: a calling tab and the leader it calls
  elector,              \* LeaderElector: the electors of one name and their localStorage record
  spoke                 \* Spoke: the spokes of one hub and their recovery attempts

tabVars == <<isLeader, isLeaderReady, api, state, callDeferreds, queuedCalls,
             open, inbox, calls, running, stateEvents, messages, callerId>>
lockVars == <<lockHeld, lockQueue, requests, relinquishLeadership>>
hbVars == <<peer, tabs, leaderId, onLeadership, hbApi, channel, hbInbox, heartbeatTimeout,
            reapTimer, settleTimers, leaderState, closedAs, hbBudget, posted>>
otherVars == <<election, ack, elector, spoke>>
tabFields == <<constructed, tabVars, lockVars, ctor, thrown, lastSet, readyAt, budget>>
vars == <<hbVars, otherVars, constructed, isLeader, isLeaderReady, api, state, callDeferreds,
          queuedCalls, relinquishLeadership, open, inbox, lockHeld, lockQueue,
          requests, ctor, calls, running, stateEvents, messages, thrown, lastSet, readyAt, budget,
          callerId>>

(***************************************************************************)
(* The part of the state the message handlers read and write, as a record, *)
(* so that the synchronous call chains of the code (a handler that posts   *)
(* a message that is delivered to the same tab ...) compose.               *)
(***************************************************************************)
World ==
  [isLeader |-> isLeader, isLeaderReady |-> isLeaderReady, api |-> api,
   state |-> state, callDeferreds |-> callDeferreds, queuedCalls |-> queuedCalls,
   open |-> open, inbox |-> inbox, calls |-> calls, running |-> running,
   stateEvents |-> stateEvents, messages |-> messages,
   callerId |-> callerId,
   \* the API method invocations the handler has made so far
   invoked |-> <<>>]

Commit(W) ==
  /\ isLeader' = W.isLeader
  /\ isLeaderReady' = W.isLeaderReady
  /\ api' = W.api
  /\ state' = W.state
  /\ callDeferreds' = W.callDeferreds
  /\ queuedCalls' = W.queuedCalls
  /\ open' = W.open
  /\ inbox' = W.inbox
  /\ calls' = W.calls
  /\ running' = W.running
  /\ stateEvents' = W.stateEvents
  /\ messages' = W.messages
  /\ callerId' = W.callerId

(***************************************************************************)
(* Messages and the message handlers                                       *)
(***************************************************************************)
Msg(to, name, rest) == [to |-> to, name |-> name, rest |-> rest]

NoOutcome == [kind |-> "pending", val |-> Undef]

\* resolve / reject of a call's promise: only the first one settles it
Settle(call, kind, val) ==
  [call EXCEPT !.outcome = IF @.kind = "pending" THEN [kind |-> kind, val |-> val] ELSE @,
               !.settles = @ + 1]

\* _onReturn without its clearTimeout
KeepTimeout(call) == call

\* clearTimeout(deferred.timeout); the time a disarmed timer had run is forgotten
ClearTimeout(call) == [call EXCEPT !.timer = "cleared", !.elapsed = 0]

\* Map.prototype.set on _queuedCalls: an existing key keeps its position
QueueSet(q, key, id, name, rest) ==
  LET entry == [key |-> key, id |-> id, name |-> name, rest |-> rest]
  IN IF \E i \in DOMAIN q : q[i].key = key
       THEN [i \in DOMAIN q |-> IF q[i].key = key THEN entry ELSE q[i]]
       ELSE Append(q, entry)

\* _isToMe(to) evaluates to.has(...) when `to` is not a string: a TypeError
\* for the values that are not a Set
IsToMeThrows(to) == to.t # "string"

\* _isToMe taking the audience Leader for every tab
IsToMeAnyLeader(W, t, to) ==
  /\ to.t = "string"
  /\ \/ to = ToLeader
     \/ to = Id(t)
     \/ to = ToAll
     \/ to = ToOthers

IsToMe(W, t, to) ==
  /\ to.t = "string"
  /\ \/ to = ToLeader /\ W.isLeader[t]
     \/ to = Id(t)
     \/ to = ToAll
     \/ to = ToOthers

\* a channel that also receives what is posted on it
BroadcastToAll(W, t, data) ==
  [d \in Tabs |-> [s \in Tabs |->
     IF s = t /\ W.open[d] THEN Append(W.inbox[d][s], data) ELSE W.inbox[d][s]]]

\* BroadcastChannel.postMessage: a task for every other channel of the name
\* that is open now
Broadcast(W, t, data) ==
  [d \in Tabs |-> [s \in Tabs |->
     IF s = t /\ d # t /\ W.open[d] THEN Append(W.inbox[d][s], data) ELSE W.inbox[d][s]]]

\* typeof this._api?.[name]: the property whose key is the string `name`
TypeOfApi(W, t, name) ==
  IF W.api[t] # 0 /\ name.t = "string" /\ name.s \in DOMAIN ApiProperties
    THEN ApiProperties[name.s] ELSE "undefined"

\* an API in which every name is a function
ApiHasAny(W, t, name) == W.api[t] # 0 /\ name.t = "string"

ApiHas(W, t, name) == TypeOfApi(W, t, name) = "function"

InvalidMethod(name) == Err("Invalid API method \"" \o JSString(name) \o "\"")

RECURSIVE PostMessage(_, _, _, _, _)
RECURSIVE OnMessage(_, _, _)
RECURSIVE OnCall(_, _, _)
RECURSIVE CallWithin(_, _, _, _)
RECURSIVE OnSendState(_, _, _)
RECURSIVE OnLeader(_, _, _)
RECURSIVE FlushToLeader(_, _, _)

OnReturn(W, t, rest) ==
  LET callNumber == Arg(rest, 1)
      error == Arg(rest, 2)
      results == Arg(rest, 3)
  IN IF ~(callNumber.t = "number" /\ callNumber.n \in W.callDeferreds[t])
       THEN W  \* console.error('No deferred found for call')
       ELSE LET c == callNumber.n
            IN [W EXCEPT !.callDeferreds[t] = @ \ {c},
                         !.calls[t][c] =
                            IF Truthy(error)
                              THEN Settle(ClearTimeout(@), "rejected", error)
                              ELSE Settle(ClearTimeout(@), "resolved", results)]

OnState(W, t, rest) ==
  [W EXCEPT !.state[t] = Arg(rest, 1), !.stateEvents[t] = @ + 1]

OnSend(W, t, rest) == [W EXCEPT !.messages[t] = Append(@, Arg(rest, 1))]

PostMessage(W, t, to, name, rest) ==
  IF ~Truthy(to) THEN W
  ELSE IF to # ToOthers /\ IsToMeThrows(to) THEN W  \* TypeError, before anything is posted
  ELSE LET data == Msg(to, name, rest)
           toMe == to # ToOthers /\ IsToMe(W, t, to)
           \* a closed channel is replaced by a new one and the post repeated
           W1 == [W EXCEPT !.open[t] = TRUE, !.inbox = Broadcast(W, t, data)]
       IN IF toMe THEN OnMessage(W1, t, data) ELSE W1

OnMessage(W, t, data) ==
  IF ~IsToMe(W, t, data.to) THEN W
  ELSE CASE data.name = "onCall" -> OnCall(W, t, data.rest)
         [] data.name = "onReturn" -> OnReturn(W, t, data.rest)
         [] data.name = "onState" -> OnState(W, t, data.rest)
         [] data.name = "onSend" -> OnSend(W, t, data.rest)
         [] data.name = "onSendState" -> OnSendState(W, t, data.rest)
         [] data.name = "onLeader" -> OnLeader(W, t, data.rest)
         [] OTHER -> W

NewCall(name, rest, pc) ==
  [name |-> name, rest |-> rest, pc |-> pc, exists |-> FALSE, timer |-> "armed",
   elapsed |-> 0, outcome |-> NoOutcome, settles |-> 0]

CallMessage(t, c, call) == <<Id(t), Num(c), call.name>> \o call.rest

\* call(name, ...rest) made by an API method of the ready leader while it
\* runs: the Promise executor runs _onCall before call() returns
CallWithin(W, t, name, rest) ==
  LET c == Len(W.calls[t]) + 1
      W1 == [W EXCEPT !.calls[t] = Append(@, NewCall(name, rest, "done")),
                      !.callDeferreds[t] = @ \cup {c}]
  IN OnCall(W1, t, CallMessage(t, c, W1.calls[t][c]))

\* _onCall up to its `await promise`; the continuation is MethodSettle.
\* The method relay calls tab.call('echo', ...rest) and returns its argument;
\* callerIds are the values of getCurrentCallerId() at the start and at the
\* end of the synchronous execution of the method.
OnCall(W, t, args) ==
  LET id == Arg(args, 1)
      callNumber == Arg(args, 2)
      name == Arg(args, 3)
      rest == RestFrom(args, 4)
  IN IF ~W.isLeader[t] THEN W
     ELSE IF ~W.isLeaderReady[t]
       THEN [W EXCEPT !.queuedCalls[t] = QueueSet(@, callNumber, id, name, rest)]
     ELSE IF ~ApiHas(W, t, name)
       THEN PostMessage(W, t, id, "onReturn", <<callNumber, InvalidMethod(name)>>)
     ELSE LET W1 == [W EXCEPT !.callerId[t] = id]
              W2 == IF name.s = "relay" THEN CallWithin(W1, t, Str("echo"), rest) ELSE W1
              inv == [id |-> id, callNumber |-> callNumber, name |-> name.s, rest |-> rest,
                      callerIds |-> <<W1.callerId[t], W2.callerId[t]>>]
              W3 == [W2 EXCEPT !.running[t] = @ \cup {inv},
                               !.invoked = Append(@, [tab |-> t, inv |-> inv])]
          IN [W3 EXCEPT !.callerId[t] = Undef]

OnSendState(W, t, rest) ==
  IF W.isLeader[t] THEN PostMessage(W, t, Arg(rest, 1), "onState", <<W.state[t]>>) ELSE W

\* _queuedCalls.forEach of _onLeader: entries added while iterating are visited
FlushToLeader(W, t, i) ==
  IF i > Len(W.queuedCalls[t]) THEN W
  ELSE LET e == W.queuedCalls[t][i]
       IN FlushToLeader(
            PostMessage(W, t, ToLeader, "onCall", <<e.key, e.name>> \o e.rest), t, i + 1)

OnLeader(W, t, rest) ==
  LET W1 == FlushToLeader(OnState(W, t, rest), t, 1)
  IN [W1 EXCEPT !.queuedCalls[t] = <<>>]

(***************************************************************************)
(* navigator.locks: one exclusive lock, held by a waitForLeadership        *)
(* request, and a FIFO queue of waitForLeadership requests.                *)
(***************************************************************************)
NoLock == [kind |-> "none", tab |-> 0, n |-> 0]
ReqLock(t, k) == [kind |-> "req", tab |-> t, n |-> k]

LockState == [held |-> lockHeld, queue |-> lockQueue, requests |-> requests]

CommitLock(L) ==
  /\ lockHeld' = L.held
  /\ lockQueue' = L.queue
  /\ requests' = L.requests

\* the lock is released: the first queued request, if any, is granted
ReleaseLock(L) ==
  IF L.queue = <<>> THEN [L EXCEPT !.held = NoLock]
  ELSE LET r == Head(L.queue)
       IN [held |-> ReqLock(r.tab, r.n), queue |-> Tail(L.queue),
           requests |-> [L.requests EXCEPT ![r.tab][r.n].pc = "granted"]]

\* navigator.locks.request(name, {signal}, callback)
RequestLock(L, t, k) ==
  IF L.held = NoLock
    THEN [L EXCEPT !.held = ReqLock(t, k),
                   !.requests[t] = Append(@, [pc |-> "granted", result |-> "none"])]
    ELSE [L EXCEPT !.queue = Append(@, [tab |-> t, n |-> k]),
                   !.requests[t] = Append(@, [pc |-> "waiting", result |-> "none"])]

\* the request is aborted by its signal before its callback ran
AbortRequest(L, t, k) ==
  IF L.requests[t][k].pc = "waiting"
    THEN [L EXCEPT !.queue = SelectSeq(@, LAMBDA r : r # [tab |-> t, n |-> k]),
                   !.requests[t][k].pc = "aborted"]
  ELSE IF L.requests[t][k].pc = "granted"
    THEN ReleaseLock([L EXCEPT !.requests[t][k].pc = "aborted"])
  ELSE L

\* a resolver that releases the lock every time it is called
ResolveKeepLockAgain(L, t, k) ==
  IF L.requests[t][k].pc = "init"
    THEN [L EXCEPT !.requests[t][k].pc = "initRel"]
  ELSE IF L.requests[t][k].pc \in {"ready", "released", "done"}
    THEN ReleaseLock([L EXCEPT !.requests[t][k].pc = "released"])
  ELSE L

\* resolve(true) of keepLockPromise
ResolveKeepLock(L, t, k) ==
  IF L.requests[t][k].pc = "init"
    THEN [L EXCEPT !.requests[t][k].pc = "initRel"]
  ELSE IF L.requests[t][k].pc = "ready"
    THEN ReleaseLock([L EXCEPT !.requests[t][k].pc = "released"])
  ELSE L

NoOp == [kind |-> "noop", k |-> 0]
AbortFn(k) == [kind |-> "abort", k |-> k]
KeepFn(k) == [kind |-> "keep", k |-> k]

\* this.relinquishLeadership()
CallRelinquish(L, t) ==
  LET f == relinquishLeadership[t]
  IN CASE f.kind = "abort" -> AbortRequest(L, t, f.k)
       [] f.kind = "keep" -> ResolveKeepLock(L, t, f.k)
       [] OTHER -> L

Budget(terms, callCount, sets, closes) ==
  [terms |-> terms, calls |-> callCount, setStates |-> sets, closes |-> closes, sends |-> 0]
NoBudget == Budget(0, 0, 0, 0)

(***************************************************************************)
(* The heartbeat variant: waitForLeadership(name, onLeadership)            *)
(***************************************************************************)
\* The non-spectator peers of one namespace, numbered in the order of their
\* ids: createTabId() draws a random string per peer, and the code compares
\* ids as strings, with sort() and with `<`.
Peers == 1..NumPeers

PING == "ping"
PONG == "pong"
CLOSE == "tabClose"
PROMOTE == "tabPromote"
ELECTION == "election"
STATE_ == "state"
RECEIVE == "receive"

\* { name, rest }: rest is [id, isLeader] for PING and PONG, [id] for CLOSE
\* and PROMOTE, [] for ELECTION and [state] for STATE
HbMsg(name, id, flag) == [name |-> name, id |-> id, flag |-> flag, val |-> Undef]
StateMsg(v) == [name |-> STATE_, id |-> 0, flag |-> FALSE, val |-> v]
ReceiveMsg(v) == [name |-> RECEIVE, id |-> 0, flag |-> FALSE, val |-> v]

\* An entry of the membership table holds the Date.now() of its last update.
\* The only reader is the callback sendHeartbeat() schedules, which compares
\* it with the `now` of that sendHeartbeat(): "stale" is older than the
\* peer's last sendHeartbeat(), "fresh" is not, "none" is no entry.
NoTabs == [q \in Peers |-> "none"]

Beat ==
  [tabs |-> tabs, leaderId |-> leaderId, channel |-> channel, hbInbox |-> hbInbox,
   settleTimers |-> settleTimers, leaderState |-> leaderState, posted |-> <<>>,
   \* the calls of onMessage made so far in this step
   handled |-> <<>>]

CommitBeat(B) ==
  /\ tabs' = B.tabs
  /\ leaderId' = B.leaderId
  /\ channel' = B.channel
  /\ hbInbox' = B.hbInbox
  /\ settleTimers' = B.settleTimers
  /\ leaderState' = B.leaderState
  /\ posted' = B.posted

HbIsLeader(B, p) == B.leaderId[p] = p

\* channel.postMessage(data): a message event is queued on every other open
\* channel of the namespace
HbBroadcast(B, p, m) ==
  [B EXCEPT !.posted = Append(@, m),
            !.hbInbox =
     [d \in Peers |-> [s \in Peers |->
        IF s = p /\ d # p /\ B.channel[d]
          THEN Append(B.hbInbox[d][s], m) ELSE B.hbInbox[d][s]]]]

RECURSIVE HbPostMessage(_, _, _, _)

HbOnTabClose(B, p, id) == [B EXCEPT !.tabs[p][id] = "none"]

\* onTabPromote that takes the id of the last PROMOTE
PromoteLast(B, p, newLeaderId) ==
  [B EXCEPT !.leaderId[p] = newLeaderId, !.settleTimers[p] = @ + 1]

\* the callback it schedules is HbSettle
HbOnTabPromote(B, p, newLeaderId) ==
  LET B1 == IF B.leaderId[p] = 0 \/ B.leaderId[p] < newLeaderId
              THEN [B EXCEPT !.leaderId[p] = newLeaderId] ELSE B
  IN [B1 EXCEPT !.settleTimers[p] = @ + 1]

HbOnPong(B, p, tabId, isTabLeader) ==
  LET B1 == [B EXCEPT !.tabs[p][tabId] = "fresh"]
  IN IF isTabLeader THEN [B1 EXCEPT !.leaderId[p] = tabId] ELSE B1

HbOnPing(B, p, tabId, isTabLeader) ==
  LET B1 == IF HbIsLeader(B, p) /\ B.leaderState[p] # Undef /\ B.tabs[p][tabId] = "none"
              THEN HbPostMessage(B, p, StateMsg(B.leaderState[p]), FALSE) ELSE B
      B2 == [B1 EXCEPT !.tabs[p][tabId] = "fresh"]
      B3 == IF tabId # p
              THEN HbPostMessage(B2, p, HbMsg(PONG, p, HbIsLeader(B2, p)), TRUE) ELSE B2
  IN IF tabId = 0 THEN B1
     ELSE IF isTabLeader THEN [B3 EXCEPT !.leaderId[p] = tabId] ELSE B3

\* Array.from(tabs.keys()).sort().pop()
MaxId(B, p) ==
  LET keys == {q \in Peers : B.tabs[p][q] # "none"}
  IN IF keys = {} THEN 0 ELSE CHOOSE q \in keys : \A r \in keys : r <= q

HbOnElection(B, p) ==
  LET B1 == [B EXCEPT !.leaderId[p] = 0]
  IN IF p = MaxId(B1, p)
       THEN HbOnTabPromote(HbPostMessage(B1, p, HbMsg(PROMOTE, p, FALSE), TRUE), p, p)
       ELSE B1

HbOnUserState(B, p, v) == [B EXCEPT !.leaderState[p] = v]

\* callbacks[name](...rest)
HbOnMessage(B0, p, m) ==
  LET B == [B0 EXCEPT !.handled = Append(@, [peer |-> p, name |-> m.name])]
  IN CASE m.name = PING -> HbOnPing(B, p, m.id, m.flag)
       [] m.name = PONG -> HbOnPong(B, p, m.id, m.flag)
       [] m.name = CLOSE -> HbOnTabClose(B, p, m.id)
       [] m.name = PROMOTE -> HbOnTabPromote(B, p, m.id)
       [] m.name = ELECTION -> HbOnElection(B, p)
       [] m.name = STATE_ -> HbOnUserState(B, p, m.val)
       [] OTHER -> B  \* onUserMessage: the listeners of onReceive

\* postMessage(name, ...rest): sendSelf is false when the last argument is
\* DONT_RECEIVE.  On a closed channel channel.postMessage throws
\* InvalidStateError: a channel is created and the message posted again with
\* the rest from which DONT_RECEIVE has been popped.
HbPostMessage(B, p, m, sendSelf) ==
  IF ~B.channel[p]
    THEN HbPostMessage([B EXCEPT !.channel[p] = TRUE], p, m, TRUE)
    ELSE LET B1 == HbBroadcast(B, p, m)
         IN IF sendSelf THEN HbOnMessage(B1, p, m) ELSE B1

\* sendHeartbeat(): every entry written before `now` is older than `now`
SendHeartbeat(B, p) ==
  LET B1 == [B EXCEPT !.tabs[p] = [q \in Peers |-> IF @[q] = "fresh" THEN "stale" ELSE @[q]]]
  IN HbPostMessage(B1, p, HbMsg(PING, p, HbIsLeader(B1, p)), TRUE)

\* tabs.forEach of a callback that closes nothing
CloseNone(B, p, q) == B

\* tabs.forEach of the callback of sendHeartbeat(), from the entry of peer q on
RECURSIVE CloseStale(_, _, _)
CloseStale(B, p, q) ==
  IF q > NumPeers THEN B
  ELSE CloseStale(IF B.tabs[p][q] = "stale"
                    THEN HbPostMessage(B, p, HbMsg(CLOSE, q, FALSE), TRUE) ELSE B,
                  p, q + 1)

NoAck == [callCount |-> 0]

\* a page without LeaderElector and without Spoke
NoElector == [state |-> <<>>]
NoSpoke == [recoveryAttempt |-> <<>>]
NoOthers == elector = NoElector /\ spoke = NoSpoke

\* The peers of one election.  tabs[v] are the keys of the membership table
\* of v, handled[v] says that v has handled the ELECTION, pending[v] are the
\* ids of the PROMOTE messages posted and not yet delivered to v, arrived[v]
\* the ids of the PROMOTE messages delivered to v, in order.
Voters == 1..NumVoters

NoElection ==
  [tabs |-> <<>>, leaderId |-> <<>>, settleTimers |-> <<>>, handled |-> <<>>,
   pending |-> <<>>, arrived |-> <<>>]

\* Array.from(tabs.keys()).sort().pop()
MaxKey(keys) == IF keys = {} THEN 0 ELSE CHOOSE q \in keys : \A r \in keys : r <= q

Promoters == {v \in Voters : DOMAIN election.tabs # {} /\ v = MaxKey(election.tabs[v])}

HbBudget(closes, crashes) == [closes |-> closes, crashes |-> crashes, sends |-> 0]

\* no peer has called waitForLeadership() yet
PeersWith(b) ==
  /\ peer = [p \in Peers |-> "none"]
  /\ tabs = [p \in Peers |-> NoTabs]
  /\ leaderId = [p \in Peers |-> 0]
  /\ onLeadership = [p \in Peers |-> TRUE]
  /\ hbApi = [p \in Peers |-> 0]
  /\ channel = [p \in Peers |-> FALSE]
  /\ hbInbox = [d \in Peers |-> [s \in Peers |-> <<>>]]
  /\ heartbeatTimeout = [p \in Peers |-> FALSE]
  /\ reapTimer = [p \in Peers |-> FALSE]
  /\ settleTimers = [p \in Peers |-> 0]
  /\ leaderState = [p \in Peers |-> Undef]
  /\ closedAs = [p \in Peers |-> [leader |-> FALSE, with |-> {}]]
  /\ hbBudget = b
  /\ posted = <<>>

PeerFields(closes, crashes) == PeersWith(HbBudget(closes, crashes))

NoPeers(closes, crashes) ==
  PeerFields(closes, crashes) /\ election = NoElection /\ ack = NoAck /\ NoOthers

\* what a peer that closes or crashes believed of itself, and the peers
\* that were running with it
Leaving(p) ==
  [leader |-> leaderId[p] = p, with |-> {q \in Peers \ {p} : peer[q] = "live"}]

\* The timers of the program are 50 ms (PING_TIMEOUT) and at least 1000 ms
\* (HEARTBEAT_INTERVAL); a message is delivered in well under either.  A
\* heartbeat is therefore not sent while more than InFlight messages wait on
\* one channel or more than SettleCap callbacks of onTabPromote are pending.
Quiet ==
  /\ \A d, s \in Peers : Len(hbInbox[d][s]) <= InFlight
  /\ \A q \in Peers : settleTimers[q] <= SettleCap

\* waitForLeadership(name, onLeadership) of a peer: createChannel() and the
\* first sendHeartbeat()
HbStart(p) ==
  /\ peer[p] = "none"
  /\ peer' = [peer EXCEPT ![p] = "live"]
  /\ CommitBeat(SendHeartbeat(
       [Beat EXCEPT !.channel[p] = TRUE, !.tabs[p] = [NoTabs EXCEPT ![p] = "fresh"]], p))
  /\ heartbeatTimeout' = [heartbeatTimeout EXCEPT ![p] = TRUE]
  /\ reapTimer' = [reapTimer EXCEPT ![p] = TRUE]
  /\ UNCHANGED <<onLeadership, hbApi, closedAs, hbBudget, tabFields, otherVars>>

\* heartbeatTimeout fires: sendHeartbeat().  The callback of the previous
\* sendHeartbeat() ran 50 ms after it, long before.
HbHeartbeat(p) ==
  /\ heartbeatTimeout[p]
  /\ ~reapTimer[p]
  /\ Quiet
  /\ CommitBeat(SendHeartbeat(Beat, p))
  /\ reapTimer' = [reapTimer EXCEPT ![p] = TRUE]
  /\ UNCHANGED <<peer, onLeadership, hbApi, heartbeatTimeout, closedAs, hbBudget, tabFields, otherVars>>

\* The callback of sendHeartbeat(), PING_TIMEOUT after it: by then the PING
\* has been delivered and the PONGs it was answered with have come back.
HbReap(p) ==
  /\ reapTimer[p]
  /\ \A q \in Peers : \A i \in DOMAIN hbInbox[q][p] : hbInbox[q][p][i].name # PING
  /\ \A q \in Peers : \A i \in DOMAIN hbInbox[p][q] : hbInbox[p][q][i].name # PONG
  /\ LET B1 == CloseStale(Beat, p, 1)
     IN CommitBeat(IF B1.leaderId[p] = 0 \/ B1.tabs[p][B1.leaderId[p]] = "none"
                     THEN HbPostMessage(B1, p, HbMsg(ELECTION, 0, FALSE), TRUE) ELSE B1)
  /\ reapTimer' = [reapTimer EXCEPT ![p] = FALSE]
  /\ UNCHANGED <<peer, onLeadership, hbApi, heartbeatTimeout, closedAs, hbBudget, tabFields, otherVars>>

\* the callback of onTabPromote without `onLeadership = null`
HbSettleAgain(p) ==
  /\ settleTimers[p] > 0
  /\ settleTimers' = [settleTimers EXCEPT ![p] = @ - 1]
  /\ IF leaderId[p] = p /\ onLeadership[p]
       THEN hbApi' = [hbApi EXCEPT ![p] = @ + 1]
       ELSE UNCHANGED hbApi
  /\ posted' = <<>>
  /\ UNCHANGED <<peer, tabs, leaderId, onLeadership, channel, hbInbox, heartbeatTimeout,
                 reapTimer, leaderState, closedAs, hbBudget, tabFields, otherVars>>

\* a callback of onTabPromote, PING_TIMEOUT after it
HbSettle(p) ==
  /\ settleTimers[p] > 0
  /\ settleTimers' = [settleTimers EXCEPT ![p] = @ - 1]
  /\ IF leaderId[p] = p /\ onLeadership[p]
       THEN /\ hbApi' = [hbApi EXCEPT ![p] = @ + 1]
            /\ onLeadership' = [onLeadership EXCEPT ![p] = FALSE]
       ELSE UNCHANGED <<hbApi, onLeadership>>
  /\ posted' = <<>>
  /\ UNCHANGED <<peer, tabs, leaderId, channel, hbInbox, heartbeatTimeout, reapTimer,
                 leaderState, closedAs, hbBudget, tabFields, otherVars>>

\* onMessage of peer d for the oldest message of peer s
HbDeliver(d, s) ==
  /\ channel[d]
  /\ hbInbox[d][s] # <<>>
  /\ CommitBeat(HbOnMessage([Beat EXCEPT !.hbInbox[d][s] = Tail(@)], d, Head(hbInbox[d][s])))
  /\ UNCHANGED <<peer, onLeadership, hbApi, heartbeatTimeout, reapTimer, closedAs,
                 hbBudget, tabFields, otherVars>>

\* close() that posts CLOSE for the peer and no ELECTION
HbCloseNoElection(p) ==
  /\ peer[p] \in {"live", "closed"}
  /\ hbBudget.closes > 0
  /\ hbBudget' = [hbBudget EXCEPT !.closes = @ - 1]
  /\ peer' = [peer EXCEPT ![p] = "closed"]
  /\ closedAs' = [closedAs EXCEPT ![p] = IF peer[p] = "closed" THEN @ ELSE Leaving(p)]
  /\ heartbeatTimeout' = [heartbeatTimeout EXCEPT ![p] = FALSE]
  /\ CommitBeat([HbPostMessage(Beat, p, HbMsg(CLOSE, p, FALSE), TRUE)
                   EXCEPT !.channel[p] = FALSE, !.hbInbox[p] = [s \in Peers |-> <<>>]])
  /\ UNCHANGED <<onLeadership, hbApi, reapTimer, tabFields, otherVars>>

\* close(): the messages queued on the closed channel are dropped; the
\* callbacks scheduled by sendHeartbeat() and onTabPromote stay scheduled
HbClose(p) ==
  /\ peer[p] \in {"live", "closed"}
  /\ hbBudget.closes > 0
  /\ hbBudget' = [hbBudget EXCEPT !.closes = @ - 1]
  /\ peer' = [peer EXCEPT ![p] = "closed"]
  /\ closedAs' = [closedAs EXCEPT ![p] = IF peer[p] = "closed" THEN @ ELSE Leaving(p)]
  /\ heartbeatTimeout' = [heartbeatTimeout EXCEPT ![p] = FALSE]
  /\ LET B1 == HbPostMessage(Beat, p, HbMsg(CLOSE, p, FALSE), TRUE)
         B2 == IF B1.leaderId[p] = p
                 THEN HbPostMessage(B1, p, HbMsg(ELECTION, 0, FALSE), TRUE) ELSE B1
     IN CommitBeat([B2 EXCEPT !.channel[p] = FALSE,
                              !.hbInbox[p] = [s \in Peers |-> <<>>]])
  /\ UNCHANGED <<onLeadership, hbApi, reapTimer, tabFields, otherVars>>

\* tab.send(msg): postMessage(RECEIVE, msg, DONT_RECEIVE)
HbSend(p) ==
  /\ peer[p] \in {"live", "closed"}
  /\ hbBudget.sends > 0
  /\ hbBudget' = [hbBudget EXCEPT !.sends = @ - 1]
  /\ CommitBeat(HbPostMessage(Beat, p, ReceiveMsg(Num(0)), FALSE))
  /\ UNCHANGED <<peer, onLeadership, hbApi, heartbeatTimeout, reapTimer, closedAs,
                 tabFields, otherVars>>

\* The peer stops without close(): its tab is killed or frozen.  It sends
\* and answers nothing from then on; what it posted before is still delivered.
HbCrash(p) ==
  /\ peer[p] = "live"
  /\ hbBudget.crashes > 0
  /\ hbBudget' = [hbBudget EXCEPT !.crashes = @ - 1]
  /\ peer' = [peer EXCEPT ![p] = "crashed"]
  /\ closedAs' = [closedAs EXCEPT ![p] = Leaving(p)]
  /\ channel' = [channel EXCEPT ![p] = FALSE]
  /\ hbInbox' = [hbInbox EXCEPT ![p] = [s \in Peers |-> <<>>]]
  /\ heartbeatTimeout' = [heartbeatTimeout EXCEPT ![p] = FALSE]
  /\ reapTimer' = [reapTimer EXCEPT ![p] = FALSE]
  /\ settleTimers' = [settleTimers EXCEPT ![p] = 0]
  /\ posted' = <<>>
  /\ UNCHANGED <<tabs, leaderId, onLeadership, hbApi, leaderState, tabFields, otherVars>>

(***************************************************************************)
(* Construction and leadership                                             *)
(***************************************************************************)
\* no setState has taken effect since leadership last changed
NoSet == [tab |-> 0, val |-> Undef]

\* the fields of a Tab after `new Tab()`, for the tabs constructed so far
TabFields(done) ==
  /\ constructed = [t \in Tabs |-> done]
  /\ isLeader = [t \in Tabs |-> FALSE]
  /\ isLeaderReady = [t \in Tabs |-> FALSE]
  /\ api = [t \in Tabs |-> 0]
  /\ state = [t \in Tabs |-> InitialState]
  /\ callDeferreds = [t \in Tabs |-> {}]
  /\ queuedCalls = [t \in Tabs |-> <<>>]
  /\ callerId = [t \in Tabs |-> Undef]
  /\ relinquishLeadership = [t \in Tabs |-> NoOp]
  /\ open = [t \in Tabs |-> done]
  /\ inbox = [d \in Tabs |-> [s \in Tabs |-> <<>>]]
  /\ lockHeld = NoLock
  /\ lockQueue = <<>>
  /\ requests = [t \in Tabs |-> <<>>]
  /\ ctor = [t \in Tabs |-> IF done THEN "done" ELSE "none"]
  /\ calls = [t \in Tabs |-> <<>>]
  /\ running = [t \in Tabs |-> {}]
  /\ stateEvents = [t \in Tabs |-> 0]
  /\ messages = [t \in Tabs |-> <<>>]
  /\ thrown = [t \in Tabs |-> Undef]
  /\ lastSet = NoSet /\ readyAt = 0

\* ... in a page that does not use the heartbeat variant
InitTabs(done) == TabFields(done) /\ NoPeers(0, 0)

\* Every Tab has been constructed and none has asked for leadership yet: the
\* constructors' hasLeader() probes found the lock free and posted nothing.
InitLock == InitTabs(TRUE) /\ budget = Budget(LockTerms, 0, 0, LockCloses)
InitState == InitTabs(TRUE) /\ budget = Budget(StateTerms, 0, StateSets, StateCloses)
InitCall == InitTabs(TRUE) /\ budget = Budget(CallTerms, CallCalls, 0, CallCloses)
InitPair == InitTabs(TRUE) /\ budget = Budget(PairTerms, PairCalls, 0, 0)
InitSend ==
  InitTabs(TRUE) /\ budget = [Budget(SendTerms, 0, 0, SendCloses) EXCEPT !.sends = SendSends]
InitQueue == InitTabs(TRUE) /\ budget = Budget(QueueTerms, QueueCalls, 0, 0)
InitRelay == InitTabs(TRUE) /\ budget = Budget(RelayTerms, RelayCalls, 0, 0)
InitDot == InitTabs(TRUE) /\ budget = Budget(DotTerms, DotCalls, 0, 0)
\* no Tab has been constructed yet
InitJoin == InitTabs(FALSE) /\ budget = Budget(JoinTerms, 0, JoinSets, 0)

\* An ifAvailable probe of hasLeader(): `lock === null` is true exactly when the
\* lock is not available.  A probe that finds the lock free holds it only while
\* its callback `lock => lock === null` runs, which is taken to be no time.
LockUnavailable == lockHeld # NoLock

\* new Tab(name): the channel is created and the first probe of hasLeader()
\* is answered by the lock manager.  The tabs are numbered in the order of
\* their construction.
Construct(t) ==
  /\ ~constructed[t]
  /\ \A u \in Tabs : u < t => constructed[u]
  /\ constructed' = [constructed EXCEPT ![t] = TRUE]
  /\ open' = [open EXCEPT ![t] = TRUE]
  /\ ctor' = [ctor EXCEPT ![t] = IF LockUnavailable THEN "check2" ELSE "done"]
  /\ UNCHANGED <<hbVars, otherVars, callerId, isLeader, isLeaderReady, api, state, callDeferreds, queuedCalls,
                 relinquishLeadership, inbox, lockHeld, lockQueue, requests, calls,
                 running, stateEvents, messages, thrown, lastSet, readyAt, budget>>

\* the first probe answered true: the second probe
CtorCheck2(t) ==
  /\ ctor[t] = "check2"
  /\ ctor' = [ctor EXCEPT ![t] = IF LockUnavailable THEN "then" ELSE "done"]
  /\ UNCHANGED <<hbVars, otherVars, constructed, tabVars, lockVars, thrown, lastSet, readyAt, budget>>

\* hasLeader().then(hasLeader => ...) with hasLeader true
CtorThen(t) ==
  /\ ctor[t] = "then"
  /\ Commit(PostMessage(World, t, ToLeader, "onSendState", <<Id(t)>>))
  /\ ctor' = [ctor EXCEPT ![t] = "asked"]
  /\ UNCHANGED <<hbVars, otherVars, constructed, lockVars, thrown, lastSet, readyAt, budget>>

\* tab.waitForLeadership(onLeadership), up to the await of the lock request
WaitForLeadership(t) ==
  /\ constructed[t]
  /\ budget.terms > 0
  /\ budget' = [budget EXCEPT !.terms = @ - 1]
  /\ LET k == Len(requests[t]) + 1
     IN /\ CommitLock(RequestLock(CallRelinquish(LockState, t), t, k))
        /\ relinquishLeadership' = [relinquishLeadership EXCEPT ![t] = AbortFn(k)]
  /\ lastSet' = NoSet /\ UNCHANGED readyAt
  /\ UNCHANGED <<hbVars, otherVars, constructed, tabVars, ctor, thrown>>

\* The lock callback runs: up to the await of onLeadership(...).  The callback
\* is a task of the tab, so the continuations of the tab's earlier requests
\* that have settled (their finally blocks) have run before it.
LockAcquire(t, k) ==
  /\ k \in DOMAIN requests[t]
  /\ requests[t][k].pc = "granted"
  /\ \A j \in DOMAIN requests[t] : requests[t][j].pc \notin {"released", "aborted", "failed"}
  /\ isLeader' = [isLeader EXCEPT ![t] = TRUE]
  /\ relinquishLeadership' = [relinquishLeadership EXCEPT ![t] = KeepFn(k)]
  /\ requests' = [requests EXCEPT ![t][k].pc = "init"]
  /\ lastSet' = NoSet /\ UNCHANGED readyAt
  /\ UNCHANGED <<hbVars, otherVars, callerId, constructed, isLeaderReady, api, state, callDeferreds, queuedCalls,
                 open, inbox, lockHeld, lockQueue, ctor, calls, running, stateEvents, messages,
                 thrown, budget>>

\* _queuedCalls.forEach(... => this._onCall(id, callNumber, name, ...rest))
RECURSIVE FlushLocal(_, _, _)
FlushLocal(W, t, i) ==
  IF i > Len(W.queuedCalls[t]) THEN W
  ELSE LET e == W.queuedCalls[t][i]
       IN FlushLocal(OnCall(W, t, <<e.id, e.key, e.name>> \o e.rest), t, i + 1)

\* the rest of the lock callback once onLeadership's promise is fulfilled
BecomeReady(W, t, k) ==
  LET W1 == [W EXCEPT !.api[t] = k, !.isLeaderReady[t] = TRUE]
      W2 == [FlushLocal(W1, t, 1) EXCEPT !.queuedCalls[t] = <<>>]
  IN PostMessage(W2, t, ToOthers, "onLeader", <<W2.state[t]>>)

\* InitDone with the relinquish request made during the initialisation lost:
\* the callback's promise stays pending and the lock stays held
InitDoneKeepsLock(t, k) ==
  /\ k \in DOMAIN requests[t]
  /\ requests[t][k].pc \in {"init", "initRel"}
  /\ Commit(BecomeReady(World, t, k))
  /\ requests' = [requests EXCEPT ![t][k].pc = "ready"]
  /\ UNCHANGED <<lockHeld, lockQueue>>
  /\ lastSet' = NoSet /\ readyAt' = budget.setStates
  /\ UNCHANGED <<hbVars, otherVars, constructed, relinquishLeadership, ctor, thrown, budget>>

InitDone(t, k) ==
  /\ k \in DOMAIN requests[t]
  /\ requests[t][k].pc \in {"init", "initRel"}
  /\ Commit(BecomeReady(World, t, k))
  /\ IF requests[t][k].pc = "init"
       THEN /\ requests' = [requests EXCEPT ![t][k].pc = "ready"]
            /\ UNCHANGED <<lockHeld, lockQueue>>
       ELSE CommitLock(ReleaseLock([LockState EXCEPT !.requests[t][k].pc = "released"]))
  /\ lastSet' = NoSet /\ readyAt' = budget.setStates
  /\ UNCHANGED <<hbVars, otherVars, constructed, relinquishLeadership, ctor, thrown, budget>>

\* onLeadership throws or its promise is rejected: the callback rejects
InitFail(t, k) ==
  /\ k \in DOMAIN requests[t]
  /\ requests[t][k].pc \in {"init", "initRel"}
  /\ CommitLock(ReleaseLock([LockState EXCEPT !.requests[t][k].pc = "failed"]))
  /\ lastSet' = NoSet /\ UNCHANGED readyAt
  /\ UNCHANGED <<hbVars, otherVars, constructed, tabVars, relinquishLeadership, ctor, thrown, budget>>

\* a waitForLeadership whose promise resolves with true however its request ended
FinallyTrue(t, k) ==
  /\ k \in DOMAIN requests[t]
  /\ requests[t][k].pc \in {"released", "aborted", "failed"}
  /\ isLeader' = [isLeader EXCEPT ![t] = FALSE]
  /\ api' = [api EXCEPT ![t] = 0]
  /\ requests' = [requests EXCEPT ![t][k] = [pc |-> "done", result |-> "true"]]
  /\ lastSet' = NoSet /\ UNCHANGED readyAt
  /\ UNCHANGED <<hbVars, otherVars, callerId, constructed, isLeaderReady, state, callDeferreds, queuedCalls,
                 relinquishLeadership, open, inbox, lockHeld, lockQueue, ctor, calls,
                 running, stateEvents, messages, thrown, budget>>

\* the request's promise has settled: .catch(...) and the finally block
Finally(t, k) ==
  /\ k \in DOMAIN requests[t]
  /\ requests[t][k].pc \in {"released", "aborted", "failed"}
  /\ isLeader' = [isLeader EXCEPT ![t] = FALSE]
  /\ api' = [api EXCEPT ![t] = 0]
  /\ requests' = [requests EXCEPT ![t][k] =
       [pc |-> "done",
        result |-> CASE @.pc = "released" -> "true"
                     [] @.pc = "aborted" -> "false"
                     [] OTHER -> "error"]]
  /\ lastSet' = NoSet /\ UNCHANGED readyAt
  /\ UNCHANGED <<hbVars, otherVars, callerId, constructed, isLeaderReady, state, callDeferreds, queuedCalls,
                 relinquishLeadership, open, inbox, lockHeld, lockQueue, ctor, calls,
                 running, stateEvents, messages, thrown, budget>>

\* tab.relinquishLeadership() called by the application
Relinquish(t) ==
  /\ constructed[t]
  /\ CommitLock(CallRelinquish(LockState, t))
  /\ lastSet' = NoSet /\ UNCHANGED readyAt
  /\ UNCHANGED <<hbVars, otherVars, constructed, tabVars, relinquishLeadership, ctor, thrown, budget>>

\* tab.close()
Close(t) ==
  /\ constructed[t]
  /\ budget.closes > 0
  /\ budget' = [budget EXCEPT !.closes = @ - 1]
  /\ CommitLock(CallRelinquish(LockState, t))
  /\ isLeader' = [isLeader EXCEPT ![t] = FALSE]
  /\ open' = [open EXCEPT ![t] = FALSE]
  /\ inbox' = [inbox EXCEPT ![t] = [s \in Tabs |-> <<>>]]
  /\ lastSet' = NoSet /\ UNCHANGED readyAt
  /\ UNCHANGED <<hbVars, otherVars, callerId, constructed, isLeaderReady, api, state, callDeferreds, queuedCalls,
                 relinquishLeadership, ctor, calls, running, stateEvents, messages, thrown>>

\* a message event of the tab's channel
Deliver(d, s) ==
  /\ inbox[d][s] # <<>>
  /\ Commit(OnMessage([World EXCEPT !.inbox[d][s] = Tail(@)], d, Head(inbox[d][s])))
  /\ UNCHANGED <<hbVars, otherVars, constructed, lockVars, ctor, thrown, lastSet, readyAt, budget>>

(***************************************************************************)
(* State, calls and their timers                                           *)
(***************************************************************************)
OnlyLeaderError == Err("Only the leader can set state")
TimedOutError == Err("Call timed out")

\* setState without its isLeader check
SetStateUnguarded(t, v) ==
  /\ constructed[t]
  /\ budget.setStates > 0
  /\ budget' = [budget EXCEPT !.setStates = @ - 1]
  /\ Commit(PostMessage(OnState(World, t, <<v>>), t, ToOthers, "onState", <<v>>))
  /\ lastSet' = [tab |-> t, val |-> v] /\ UNCHANGED readyAt
  /\ UNCHANGED <<hbVars, otherVars, constructed, lockVars, ctor, thrown>>

\* tab.setState(v)
SetState(t, v) ==
  /\ constructed[t]
  /\ budget.setStates > 0
  /\ budget' = [budget EXCEPT !.setStates = @ - 1]
  /\ IF ~isLeader[t]
       THEN /\ thrown' = [thrown EXCEPT ![t] = OnlyLeaderError]
            /\ UNCHANGED <<tabVars, lastSet, readyAt>>
       ELSE /\ Commit(PostMessage(OnState(World, t, <<v>>), t, ToOthers, "onState", <<v>>))
            /\ lastSet' = [tab |-> t, val |-> v] /\ UNCHANGED readyAt
            /\ UNCHANGED thrown
  /\ UNCHANGED <<hbVars, otherVars, constructed, lockVars, ctor>>

\* the audiences the application sends to; the data names the sending tab
\* and the audience
Audiences == {ToOthers, ToLeader}
SendData(t, to) == Str(ToString(t) \o to.s)

\* tab.send(data, to)
Send(t, data, to) ==
  /\ constructed[t]
  /\ budget.sends > 0
  /\ budget' = [budget EXCEPT !.sends = @ - 1]
  /\ Commit(PostMessage(World, t, to, "onSend", <<data>>))
  /\ UNCHANGED <<hbVars, otherVars, constructed, lockVars, ctor, thrown, lastSet, readyAt>>

\* tab.call(name, ...rest), up to `await this.hasLeader()`, whose first probe
\* is answered by the lock manager
Call(t, name, rest) ==
  /\ constructed[t]
  /\ budget.calls > 0
  /\ budget' = [budget EXCEPT !.calls = @ - 1]
  /\ LET c == Len(calls[t]) + 1
         local == isLeader[t] /\ isLeaderReady[t]
         pc == IF local THEN "done" ELSE IF LockUnavailable THEN "check2" ELSE "decide"
         W == [World EXCEPT !.calls[t] = Append(@, NewCall(name, rest, pc)),
                            !.callDeferreds[t] = @ \cup {c}]
     IN Commit(IF local THEN OnCall(W, t, CallMessage(t, c, W.calls[t][c])) ELSE W)
  /\ UNCHANGED <<hbVars, otherVars, constructed, lockVars, ctor, thrown, lastSet, readyAt>>

\* the first probe answered true: the second probe decides `exists`
CallCheck2(t, c) ==
  /\ c \in DOMAIN calls[t]
  /\ calls[t][c].pc = "check2"
  /\ calls' = [calls EXCEPT ![t][c].pc = "decide", ![t][c].exists = LockUnavailable]
  /\ UNCHANGED <<hbVars, otherVars, callerId, constructed, isLeader, isLeaderReady, api, state, callDeferreds,
                 queuedCalls, open, inbox, lockVars, ctor, running, stateEvents, messages,
                 thrown, lastSet, readyAt, budget>>

\* call() after `await this.hasLeader()`
Dispatch(W, t, c) ==
  LET call == W.calls[t][c]
  IN IF W.isLeader[t] /\ W.isLeaderReady[t]
       THEN OnCall(W, t, CallMessage(t, c, call))
     ELSE IF ~W.isLeader[t] /\ call.exists
       THEN PostMessage(W, t, ToLeader, "onCall", CallMessage(t, c, call))
     ELSE [W EXCEPT !.queuedCalls[t] = QueueSet(@, Num(c), Id(t), call.name, call.rest)]

CallDecide(t, c) ==
  /\ c \in DOMAIN calls[t]
  /\ calls[t][c].pc = "decide"
  /\ Commit(Dispatch([World EXCEPT !.calls[t][c].pc = "done"], t, c))
  /\ UNCHANGED <<hbVars, otherVars, constructed, lockVars, ctor, thrown, lastSet, readyAt, budget>>

\* _onCall answering every tab instead of the caller
RespondToAll(W, t, inv) ==
  IF inv.name \in {"echo", "relay"}
    THEN PostMessage(W, t, ToAll, "onReturn", <<inv.callNumber, Null, Arg(inv.rest, 1)>>)
    ELSE PostMessage(W, t, ToAll, "onReturn", <<inv.callNumber, Arg(inv.rest, 1)>>)

\* _onCall after `await promise`: the API method returned or threw
Respond(W, t, inv) ==
  IF inv.name \in {"echo", "relay"}
    THEN PostMessage(W, t, inv.id, "onReturn", <<inv.callNumber, Null, Arg(inv.rest, 1)>>)
    ELSE PostMessage(W, t, inv.id, "onReturn", <<inv.callNumber, Arg(inv.rest, 1)>>)

MethodSettle(t, inv) ==
  /\ inv \in running[t]
  /\ Commit(Respond([World EXCEPT !.running[t] = @ \ {inv}], t, inv))
  /\ UNCHANGED <<hbVars, otherVars, constructed, lockVars, ctor, thrown, lastSet, readyAt, budget>>

Min(a, b) == IF a < b THEN a ELSE b

\* time passes for every armed timer
Tick ==
  /\ \E t \in Tabs : \E c \in DOMAIN calls[t] :
        calls[t][c].timer = "armed" /\ calls[t][c].elapsed < CALL_TIMEOUT
  /\ calls' = [t \in Tabs |-> [c \in DOMAIN calls[t] |->
        IF calls[t][c].timer = "armed"
          THEN [calls[t][c] EXCEPT !.elapsed = Min(@ + TickMs, CALL_TIMEOUT)]
          ELSE calls[t][c]]]
  /\ UNCHANGED <<hbVars, otherVars, callerId, constructed, isLeader, isLeaderReady, api, state, callDeferreds,
                 queuedCalls, relinquishLeadership, open, inbox, lockHeld, lockQueue,
                 requests, ctor, running, stateEvents, messages, thrown, lastSet, readyAt, budget>>

\* a timer that may fire before its delay has passed
TimerDueAtOnce(call) == call.timer = "armed"

TimerDue(call) == call.timer = "armed" /\ call.elapsed >= CALL_TIMEOUT

\* the callback of the call's setTimeout(..., 30_000)
Timeout(t, c) ==
  /\ c \in DOMAIN calls[t]
  /\ TimerDue(calls[t][c])
  /\ callDeferreds' = [callDeferreds EXCEPT ![t] = @ \ {c}]
  /\ calls' = [calls EXCEPT ![t][c] =
       Settle([@ EXCEPT !.timer = "fired", !.elapsed = 0], "rejected", TimedOutError)]
  /\ UNCHANGED <<hbVars, otherVars, callerId, constructed, isLeader, isLeaderReady, api, state, queuedCalls,
                 relinquishLeadership, open, inbox, lockHeld, lockQueue, requests,
                 ctor, running, stateEvents, messages, thrown, lastSet, readyAt, budget>>

(***************************************************************************)
(* Specifications                                                          *)
(***************************************************************************)
Elect ==
  \/ \E t \in Tabs : WaitForLeadership(t)
  \/ \E t \in Tabs : \E k \in DOMAIN requests[t] : LockAcquire(t, k)
  \/ \E t \in Tabs : \E k \in DOMAIN requests[t] : InitDone(t, k)
  \/ \E t \in Tabs : \E k \in DOMAIN requests[t] : InitFail(t, k)
  \/ \E t \in Tabs : \E k \in DOMAIN requests[t] : Finally(t, k)
  \/ \E t \in Tabs : Relinquish(t)
  \/ \E d \in Tabs : \E s \in Tabs : Deliver(d, s)

Calling(names) ==
  \/ \E t \in Tabs : \E name \in names : \E a \in CallArgs : Call(t, Str(name), <<a>>)
  \/ \E t \in Tabs : \E c \in DOMAIN calls[t] : CallCheck2(t, c)
  \/ \E t \in Tabs : \E c \in DOMAIN calls[t] : CallDecide(t, c)
  \/ \E t \in Tabs : \E inv \in running[t] : MethodSettle(t, inv)

Timers ==
  \/ Tick
  \/ \E t \in Tabs : \E c \in DOMAIN calls[t] : Timeout(t, c)

NextLock ==
  \/ Elect
  \/ \E t \in Tabs : Close(t)

NextState ==
  \/ Elect
  \/ \E t \in Tabs : Close(t)
  \/ \E t \in Tabs : \E v \in StateValues : SetState(t, v)

NextCall ==
  \/ Elect
  \/ \E t \in Tabs : Close(t)
  \/ Calling(CallNames)
  \/ Timers

NextPair ==
  \/ Elect
  \/ Calling({"echo"})
  \/ Timers

\* calls of one method with one argument, and no timer
QueueCalling ==
  \/ \E t \in Tabs : Call(t, Str("echo"), <<Num(0)>>)
  \/ \E t \in Tabs : \E c \in DOMAIN calls[t] : CallCheck2(t, c)
  \/ \E t \in Tabs : \E c \in DOMAIN calls[t] : CallDecide(t, c)
  \/ \E t \in Tabs : \E inv \in running[t] : MethodSettle(t, inv)

RelayNames == {"echo", "relay"}
NextRelay ==
  \/ Elect
  \/ Calling(RelayNames)

NextQueue ==
  \/ Elect
  \/ QueueCalling

\* the application calls setState only before the last tab is constructed
NextJoin ==
  \/ Elect
  \/ \E t \in Tabs : \E v \in StateValues : ~constructed[NumTabs] /\ SetState(t, v)
  \/ \E t \in Tabs : Construct(t)
  \/ \E t \in Tabs : CtorCheck2(t)
  \/ \E t \in Tabs : CtorThen(t)

NextDot ==
  \/ Elect
  \/ Calling(DotNames)

NextSend ==
  \/ Elect
  \/ \E t \in Tabs : Close(t)
  \/ \E t \in Tabs : \E to \in Audiences : Send(t, SendData(t, to), to)

\* leadership alone
SpecLock == InitLock /\ [][NextLock]_vars
\* calls by name against the API object
SpecDot == InitDot /\ [][NextDot]_vars
\* leadership and the replicated state
SpecState == InitState /\ [][NextState]_vars
\* leadership and one call
SpecCall == InitCall /\ [][NextCall]_vars
\* one leadership term and two calls
SpecRelay == InitRelay /\ [][NextRelay]_vars
SpecQueue == InitQueue /\ [][NextQueue]_vars
SpecPair == InitPair /\ [][NextPair]_vars
\* leadership and messages of the application
SpecSend == InitSend /\ [][NextSend]_vars
\* tabs that are constructed while others are already running
SpecJoin == InitJoin /\ [][NextJoin]_vars

(***************************************************************************)
(* Claims                                                                  *)
\* the heartbeat variant while no peer closes or crashes
InitBeat == TabFields(FALSE) /\ budget = NoBudget /\ NoPeers(0, 0)
\* ... with close() calls
InitBeatClose == TabFields(FALSE) /\ budget = NoBudget /\ NoPeers(BeatCloses, 0)
\* ... with crashes
InitBeatCrash == TabFields(FALSE) /\ budget = NoBudget /\ NoPeers(0, BeatCrashes)

\* ... with close() called again
InitBeatTwice == TabFields(FALSE) /\ budget = NoBudget /\ NoPeers(TwiceCloses, 0)

\* ... with close() and send()
InitBeatSend ==
  /\ TabFields(FALSE)
  /\ budget = NoBudget
  /\ PeersWith([HbBudget(BeatSendCloses, 0) EXCEPT !.sends = BeatSends])
  /\ election = NoElection /\ ack = NoAck /\ NoOthers

Beating ==
  \/ \E p \in Peers : HbStart(p)
  \/ \E p \in Peers : HbHeartbeat(p)
  \/ \E p \in Peers : HbReap(p)
  \/ \E p \in Peers : HbSettle(p)
  \/ \E d, s \in Peers : HbDeliver(d, s)

NextBeat == Beating
NextBeatClose == Beating \/ \E p \in Peers : HbClose(p)
NextBeatCrash == Beating \/ \E p \in Peers : HbCrash(p)
NextBeatSend ==
  \/ Beating
  \/ \E p \in Peers : HbClose(p)
  \/ \E p \in Peers : HbSend(p)

SpecBeat == InitBeat /\ [][NextBeat]_vars
SpecBeatClose == InitBeatClose /\ [][NextBeatClose]_vars
SpecBeatCrash == InitBeatCrash /\ [][NextBeatCrash]_vars
SpecBeatSend == InitBeatSend /\ [][NextBeatSend]_vars
SpecBeatTwice == InitBeatTwice /\ [][NextBeatClose]_vars

\* Every peer of the namespace is started; a scheduled timer fires, and a
\* posted message is delivered while its receiver's channel is open.
BeatFairness ==
  /\ \A p \in Peers : WF_vars(HbStart(p))
  /\ \A p \in Peers : SF_vars(HbHeartbeat(p))
  /\ \A p \in Peers : WF_vars(HbReap(p))
  /\ \A p \in Peers : WF_vars(HbSettle(p))
  /\ \A d, s \in Peers : WF_vars(HbDeliver(d, s))
FairBeat == SpecBeat /\ BeatFairness
FairBeatClose == SpecBeatClose /\ BeatFairness
FairBeatCrash == SpecBeatCrash /\ BeatFairness

(***************************************************************************)
Leaders == {t \in Tabs : isLeader[t]}

\* C1: in every reachable state at most one Tab of the namespace has
\* isLeader = true, for any interleaving of waitForLeadership,
\* relinquishLeadership and close, the hand-over from a relinquishing leader
\* to the next lock holder included.
C1_AtMostOneLeader == Cardinality(Leaders) <= 1

(***************************************************************************)
(* Hand-over of the lock                                                   *)
(***************************************************************************)
Requests == {r \in Tabs \X (1..LockTerms) : r[2] \in DOMAIN requests[r[1]]}
PendingRequest(r) == requests[r[1]][r[2]].pc \in {"waiting", "granted"}
\* the lock callback of request r has run (isLeader was set and onLeadership
\* was invoked) and the tab says it is the leader
LeadingRequest(r) ==
  isLeader[r[1]] /\ requests[r[1]][r[2]].pc \in {"init", "initRel", "ready"}
\* relinquishLeadership() or close() was called on the tab while request r
\* held the lock
RelinquishedRequest(r) == requests[r[1]][r[2]].pc \in {"initRel", "released"}

\* What the scheduling of the platform guarantees: a granted lock callback, a
\* settled promise's continuation and a queued message event eventually run,
\* and an initializer eventually returns or throws.
Fairness ==
  /\ WF_vars(\E t \in Tabs : \E k \in DOMAIN requests[t] : LockAcquire(t, k))
  /\ WF_vars(\E t \in Tabs : \E k \in DOMAIN requests[t] : InitDone(t, k) \/ InitFail(t, k))
  /\ WF_vars(\E t \in Tabs : \E k \in DOMAIN requests[t] : Finally(t, k))
  /\ WF_vars(\E d \in Tabs : \E s \in Tabs : Deliver(d, s))

FairLock == SpecLock /\ Fairness

\* C2: if the leader calls close() or relinquishLeadership() while another
\* waitForLeadership request is pending, then eventually the lock callback of
\* one of the waiting requests has run, its tab has isLeader = true and its
\* onLeadership callback has been invoked (unless every waiting request is
\* withdrawn first: a request that was aborted is no longer waiting).
C2_HandOver ==
  (/\ \E r \in Requests : RelinquishedRequest(r)
   /\ \E w \in Requests : PendingRequest(w))
     ~> (\/ \E w \in Requests : LeadingRequest(w) /\ ~RelinquishedRequest(w)
         \/ \A w \in Requests : ~PendingRequest(w))

\* a leader gave up the lock while another tab was waiting, and that tab's
\* lock callback has run
C2_Witness ==
  \E r \in Requests : \E w \in Requests :
    /\ r[1] # w[1]
    /\ RelinquishedRequest(r)
    /\ LeadingRequest(w)

(***************************************************************************)
(* Calls                                                                   *)
(***************************************************************************)
TimedOut == [kind |-> "rejected", val |-> TimedOutError]
InInit(t) == \E k \in DOMAIN requests[t] : requests[t][k].pc \in {"init", "initRel"}

\* C3: a call that was queued because no leader existed is delivered to the
\* leader with the caller's id and call number: every onCall message in
\* flight carries its sender's id, one of the sender's call numbers and that
\* call's method name, in this order.
C3_QueuedCallCarriesId ==
  \A d \in Tabs : \A s \in Tabs : \A i \in DOMAIN inbox[d][s] :
    LET m == inbox[d][s][i]
    IN m.name = "onCall" =>
         /\ Arg(m.rest, 1) = Id(s)
         /\ Arg(m.rest, 2).t = "number"
         /\ Arg(m.rest, 2).n \in DOMAIN calls[s]
         /\ Arg(m.rest, 3) = calls[s][Arg(m.rest, 2).n].name

\* C4: a call held by a leader whose initializer has not returned yet stays
\* held as it is until the initializer completes: no step taken while the
\* tab goes on initialising drops or replaces an entry of its queue.
C4_HeldCallsKept ==
  [][\A t \in Tabs :
       (InInit(t) /\ InInit(t)' /\ ~isLeaderReady[t] /\ ~isLeaderReady'[t])
         => \A i \in DOMAIN queuedCalls[t] :
              \E j \in DOMAIN queuedCalls'[t] : queuedCalls'[t][j] = queuedCalls[t][i]]_vars

\* the step handles a RETURN addressed to tab t for its call number c: the
\* leader answers its own call, or t's channel delivers the onReturn message
ReturnHandled(t, c) ==
  \/ \E inv \in running[t] :
       inv \notin running'[t] /\ inv.id = Id(t) /\ inv.callNumber = Num(c)
  \/ \E s \in Tabs :
       /\ inbox[t][s] # <<>>
       /\ inbox'[t][s] = Tail(inbox[t][s])
       /\ Head(inbox[t][s]).to = Id(t)
       /\ Head(inbox[t][s]).name = "onReturn"
       /\ Arg(Head(inbox[t][s]).rest, 1) = Num(c)

\* the calls that are pending before the step and resolved after it
ResolvedInStep ==
  {tc \in Tabs \X (1..PairCalls) :
     /\ tc[2] \in DOMAIN calls[tc[1]]
     /\ calls[tc[1]][tc[2]].outcome.kind = "pending"
     /\ calls'[tc[1]][tc[2]].outcome.kind = "resolved"}

\* C5: a call of the API method echo resolves with the value echo returned
\* for the call's argument, and a RETURN settles only the pending call of the
\* tab that made the call with that call number: a step resolves at most one
\* call, and it is the step that handles the RETURN for that tab and number.
C5_ReturnsToCaller ==
  [][/\ Cardinality(ResolvedInStep) <= 1
     /\ \A tc \in ResolvedInStep :
          /\ ReturnHandled(tc[1], tc[2])
          /\ calls[tc[1]][tc[2]].name = Str("echo")
          /\ calls'[tc[1]][tc[2]].outcome.val = Arg(calls[tc[1]][tc[2]].rest, 1)]_vars

\* a follower's call and the leader's own call have both resolved
C5_Witness ==
  \E t \in Tabs : \E u \in Tabs \ {t} :
    /\ requests[t] = <<>>
    /\ \E c \in DOMAIN calls[t] : calls[t][c].outcome.kind = "resolved"
    /\ requests[u] # <<>>
    /\ \E c \in DOMAIN calls[u] : calls[u][c].outcome.kind = "resolved"

\* C6: a call of the API method fail, which throws its argument, is never
\* resolved, whatever the value thrown.
C6_ThrownRejects ==
  \A t \in Tabs : \A c \in DOMAIN calls[t] :
    calls[t][c].name = Str("fail") => calls[t][c].outcome.kind # "resolved"

\* C7: a call's promise is rejected with 'Call timed out' exactly by the
\* firing of its timer; the timer fires only when it is still armed (no
\* RETURN was handled for the call) and 30 seconds have passed since call(),
\* not earlier, and the same step removes the call's pending entry.
C7_TimesOutAt30s ==
  [][\A t \in Tabs : \A c \in DOMAIN calls[t] :
       LET old == calls[t][c]
           new == calls'[t][c]
       IN /\ (old.timer = "armed" /\ new.timer = "fired")
               => /\ old.elapsed >= CALL_TIMEOUT
                  /\ old.outcome = NoOutcome
                  /\ new.outcome = TimedOut
                  /\ c \in callDeferreds[t]
                  /\ c \notin callDeferreds'[t]
          /\ (old.outcome = NoOutcome /\ new.outcome = TimedOut)
               => old.timer = "armed" /\ new.timer = "fired"]_vars

\* a call has been rejected by its timeout
C7_Witness ==
  \E t \in Tabs : \E c \in DOMAIN calls[t] :
    calls[t][c].outcome = TimedOut /\ calls[t][c].timer = "fired"

\* the next message of s for d is a RETURN that d handles and whose call
\* number has no pending entry
LateReturn(d, s) ==
  /\ inbox[d][s] # <<>>
  /\ Head(inbox[d][s]).name = "onReturn"
  /\ IsToMe(World, d, Head(inbox[d][s]).to)
  /\ LET n == Arg(Head(inbox[d][s]).rest, 1)
     IN ~(n.t = "number" /\ n.n \in callDeferreds[d])

\* C8: a call's promise is settled at most once; handling a RETURN whose call
\* number has no pending entry changes nothing but the message queue; and the
\* timer of a call whose RETURN was handled stays cleared and never fires.
C8_SettlesOnce ==
  /\ [](\A t \in Tabs : \A c \in DOMAIN calls[t] :
          /\ calls[t][c].settles <= 1
          /\ calls[t][c].timer = "fired" => calls[t][c].outcome = TimedOut)
  /\ [][\A d \in Tabs : \A s \in Tabs :
          (LateReturn(d, s) /\ Deliver(d, s))
            => UNCHANGED <<isLeader, isLeaderReady, api, state, callDeferreds,
                           queuedCalls, open, calls, running, stateEvents, messages>>]_vars
  /\ [][\A t \in Tabs : \A c \in DOMAIN calls[t] :
          calls[t][c].timer = "cleared" => calls'[t][c].timer = "cleared"]_vars

\* a RETURN for a call that has already timed out is about to be handled
C8_Witness ==
  \E d \in Tabs : \E s \in Tabs :
    /\ LateReturn(d, s)
    /\ Arg(Head(inbox[d][s]).rest, 1).t = "number"
    /\ Arg(Head(inbox[d][s]).rest, 1).n \in DOMAIN calls[d]
    /\ calls[d][Arg(Head(inbox[d][s]).rest, 1).n].timer = "fired"

(***************************************************************************)
(* State                                                                   *)
(***************************************************************************)
\* C9: setState on a tab whose isLeader is false throws 'Only the leader can
\* set state', leaves the cached state unchanged, dispatches no 'state' event
\* and posts no message.
C9_NonLeaderSetState ==
  [][\A t \in Tabs : \A v \in StateValues :
       (~isLeader[t] /\ SetState(t, v))
         => /\ thrown'[t] = OnlyLeaderError
            /\ UNCHANGED <<state, stateEvents, inbox, open>>]_vars

\* setState has thrown on a tab that is not the leader
C9_Witness ==
  \E t \in Tabs : ~isLeader[t] /\ thrown[t] = OnlyLeaderError /\ budget.setStates < StateSets

\* C10: after the leader's setState(v), with no later setState and no change
\* of leadership, once no message is in flight every open tab's state is v.
C10_StateConverges ==
  (/\ lastSet # NoSet
   /\ \A d \in Tabs : \A s \in Tabs : inbox[d][s] = <<>>)
    => \A t \in Tabs : open[t] => state[t] = lastSet.val

(***************************************************************************)
(* A tab that joins                                                        *)
(***************************************************************************)
\* no message is in flight
NoMessages == \A d \in Tabs : \A s \in Tabs : inbox[d][s] = <<>>

\* L holds the lock, its initializer has returned, it is the only tab that
\* says it is the leader, and no request of any tab is in transition
SettledLeader(L) ==
  /\ Leaders = {L}
  /\ lockHeld.kind = "req"
  /\ lockHeld.tab = L
  /\ requests[L][lockHeld.n].pc = "ready"
  /\ \A t \in Tabs : \A k \in DOMAIN requests[t] :
       requests[t][k].pc \in {"waiting", "ready", "done"}

\* C11: a Tab constructed while another tab holds the leadership asks the
\* leader for its state (it posts onSendState) and, no setState being called
\* after its construction, once no message is in flight its getState()
\* equals the state of the leader.
C11_JoinerGetsState ==
  \A L \in Tabs \ {NumTabs} :
    (/\ ctor[NumTabs] = "asked"
     /\ open[NumTabs]
     /\ NoMessages
     /\ SettledLeader(L))
      => state[NumTabs] = state[L]

(***************************************************************************)
(* Messages of the application                                             *)
(***************************************************************************)
SentToOthers(s) == Msg(ToOthers, "onSend", <<SendData(s, ToOthers)>>)

\* C12: send(data) with the default audience Others queues the message for
\* every other tab whose channel is open, each of these tabs dispatches a
\* 'message' event with the data when its channel delivers it, and no
\* 'message' event for it is ever dispatched on the sending tab.
C12_SendToOthers ==
  /\ [](\A t \in Tabs : \A i \in DOMAIN messages[t] :
          messages[t][i] # SendData(t, ToOthers))
  /\ [][\A s \in Tabs :
          Send(s, SendData(s, ToOthers), ToOthers)
            => /\ messages' = messages
               /\ \A d \in Tabs \ {s} :
                    open[d] => inbox'[d][s] = Append(inbox[d][s], SentToOthers(s))]_vars
  /\ [][\A d \in Tabs : \A s \in Tabs \ {d} :
          (Deliver(d, s) /\ Head(inbox[d][s]) = SentToOthers(s))
            => messages'[d] = Append(messages[d], SendData(s, ToOthers))]_vars

\* a tab has dispatched the 'message' event of another tab's send
C12_Witness ==
  \E d \in Tabs : \E s \in Tabs \ {d} : \E i \in DOMAIN messages[d] :
    messages[d][i] = SendData(s, ToOthers)

SentToLeader(s) == Msg(ToLeader, "onSend", <<SendData(s, ToLeader)>>)

\* C13: a message addressed to the audience Leader is handled by a tab
\* exactly if the tab's own isLeader is true when it receives the message: a
\* leader dispatches it, a tab that is not the leader leaves everything but
\* its message queue unchanged; the sender handles it at once exactly if its
\* own isLeader is true.
C13_LeaderAudience ==
  /\ [][\A d \in Tabs : \A s \in Tabs \ {d} :
          (Deliver(d, s) /\ Head(inbox[d][s]).to = ToLeader)
            => IF isLeader[d]
                 THEN Head(inbox[d][s]) = SentToLeader(s)
                        => messages'[d] = Append(messages[d], SendData(s, ToLeader))
                 ELSE UNCHANGED <<isLeader, isLeaderReady, api, state, callDeferreds,
                                  queuedCalls, open, calls, running, stateEvents,
                                  messages>>]_vars
  /\ [][\A s \in Tabs :
          Send(s, SendData(s, ToLeader), ToLeader)
            => messages' = [messages EXCEPT ![s] =
                 IF isLeader[s] THEN Append(@, SendData(s, ToLeader)) ELSE @]]_vars

\* a leader has handled a message another tab sent to the audience Leader, and
\* a message for the Leader is queued for a tab that is not the leader
C13_Witness ==
  /\ \E d \in Tabs : \E s \in Tabs \ {d} : \E i \in DOMAIN messages[d] :
       messages[d][i] = SendData(s, ToLeader)
  /\ \E d \in Tabs : \E s \in Tabs \ {d} :
       ~isLeader[d] /\ inbox[d][s] # <<>> /\ Head(inbox[d][s]) = SentToLeader(s)

(***************************************************************************)
(* The promise of waitForLeadership                                        *)
(***************************************************************************)
\* the tab's lock callback has run for the request
Acquired(r) == r.pc \in {"init", "initRel", "ready"}

\* C14: the promise of waitForLeadership resolves with true when the request
\* is relinquished after its lock callback ran (during or after the
\* initialisation), and with false when it is relinquished or superseded
\* before the callback ran: a request ends as released only from a state in
\* which it had acquired the lock and as aborted only from a state in which
\* it had not, and the promise's value is true for the former and false for
\* the latter.
C14_PromiseValue ==
  [][\A t \in Tabs : \A k \in DOMAIN requests[t] :
       LET old == requests[t][k]
           new == requests'[t][k]
       IN /\ (new.pc = "released" /\ old.pc # "released") => Acquired(old)
          /\ (new.pc = "aborted" /\ old.pc # "aborted") => old.pc \in {"waiting", "granted"}
          /\ (Acquired(old) /\ Relinquish(t) /\ relinquishLeadership[t] = KeepFn(k))
               => new.pc \in {"initRel", "released"}
          /\ (old.pc \in {"waiting", "granted"} /\ relinquishLeadership[t] = AbortFn(k)
                /\ (Relinquish(t) \/ WaitForLeadership(t)))
               => new.pc = "aborted"
          /\ (new.pc = "done" /\ old.pc # "done")
               => /\ old.pc = "released" => new.result = "true"
                  /\ old.pc = "aborted" => new.result = "false"
                  /\ new.result = "true" => old.pc = "released"
                  /\ new.result = "false" => old.pc = "aborted"]_vars

\* one waitForLeadership has resolved with true and one with false
C14_Witness ==
  /\ \E t \in Tabs : \E k \in DOMAIN requests[t] : requests[t][k].result = "true"
  /\ \E t \in Tabs : \E k \in DOMAIN requests[t] : requests[t][k].result = "false"

\* the requests of tab t that the lock manager holds: queued, or holding the
\* lock although their promise may already be marked to settle
LiveRequests(t) ==
  {k \in DOMAIN requests[t] :
     requests[t][k].pc \in {"waiting", "granted", "init", "initRel", "ready"}}

\* C15: waitForLeadership cancels the tab's previous request before it issues
\* the new one: a tab never has two requests for the leadership lock, queued
\* or holding it, at once.
C15_SingleRequest == \A t \in Tabs : Cardinality(LiveRequests(t)) <= 1

\* the function stored in relinquishLeadership has nothing left to cancel:
\* the tab never asked for leadership, or its last request was already
\* relinquished or has ended
NothingToRelinquish(t) ==
  \/ relinquishLeadership[t] = NoOp
  \/ requests[t][relinquishLeadership[t].k].pc \notin {"waiting", "granted", "init", "ready"}

OneLeader == \E l \in Peers : \A q \in Peers : leaderId[q] = l

\* C17: peers started on one namespace end up, and stay, with exactly one
\* peer whose isLeader() is true and whose id is every other peer's leaderId,
\* while no peer closes or crashes.
C17_Converges == <>[]OneLeader


\* peers a and b both believe themselves leader
BothLead(a, b) == a # b /\ leaderId[a] = a /\ leaderId[b] = b

\* C18: two peers that both believe themselves leader come to a state where
\* the one with the higher id is leader and the other holds that id as its
\* leaderId.
C18_DualResolves ==
  \A a, b \in Peers :
    a < b => (BothLead(a, b) ~> (leaderId[b] = b /\ leaderId[a] = b))


\* the peers of S that are still running hold one of them as their leader
NewLeader(S) ==
  LET live == {q \in S : peer[q] = "live"}
  IN \E n \in live : \A q \in live : leaderId[q] = n

\* the peers that ran with p when it closed and have its CLOSE before them
Notified(p) ==
  {q \in closedAs[p].with :
     peer[q] = "live" /\ \E i \in DOMAIN hbInbox[q][p] : hbInbox[q][p][i] = HbMsg(CLOSE, p, FALSE)}

\* close() of a leader whose channel is open posts CLOSE for itself, then ELECTION
LeaderCloses(p) == HbClose(p) /\ peer[p] = "live" /\ leaderId[p] = p

FollowsCrashed(q, l) == peer[l] = "crashed" /\ peer[q] = "live" /\ leaderId[q] = l

\* m is posted before n in the last step
PostedInOrder(m, n) ==
  \E i, j \in DOMAIN posted : i < j /\ posted[i] = m /\ posted[j] = n

C21_SecondCloseSilent ==
  [][\A p \in Peers : HbClose(p) /\ peer[p] = "closed" => posted' = <<>>]_vars


\* C22: a call named 'ns.m' runs method m of the object the leader's API
\* holds under the key ns and returns its result: no such call is rejected
\* (no timer runs here, so a rejection comes from the leader).
C22_DottedName ==
  \A t \in Tabs : \A c \in DOMAIN calls[t] :
    calls[t][c].name = Str("ns.m") => calls[t][c].outcome.kind # "rejected"


\* the API object has no function under the key n
NotAFunction(n) == n \notin DOMAIN ApiProperties \/ ApiProperties[n] # "function"

InvalidRejection(name) == [kind |-> "rejected", val |-> InvalidMethod(name)]

\* C23: a call whose name is no property of the leader's API, or a property
\* that is not a function, invokes nothing on the leader, and its promise is
\* rejected with 'Invalid API method "<name>"': at once when the ready leader
\* makes the call itself, by the RETURN the ready leader posts to the caller
\* otherwise; such a call is settled in no other way.
C23_InvalidMethod ==
  [][/\ \A t \in Tabs : \A inv \in running'[t] : ~NotAFunction(inv.name)
     /\ \A t \in Tabs : \A c \in DOMAIN calls'[t] :
          NotAFunction(calls'[t][c].name.s) =>
            calls'[t][c].outcome \in {NoOutcome, InvalidRejection(calls'[t][c].name)}
     /\ \A t \in Tabs : \A n \in DotNames : \A a \in CallArgs :
          (Call(t, Str(n), <<a>>) /\ NotAFunction(n) /\ isLeader[t] /\ isLeaderReady[t])
            => calls'[t][Len(calls'[t])].outcome = InvalidRejection(Str(n))
     /\ \A d \in Tabs : \A s \in Tabs \ {d} :
          (/\ Deliver(d, s)
           /\ Head(inbox[d][s]).name = "onCall"
           /\ Head(inbox[d][s]).to = ToLeader
           /\ isLeader[d] /\ isLeaderReady[d]
           /\ Arg(Head(inbox[d][s]).rest, 1) = Id(s)
           /\ Arg(Head(inbox[d][s]).rest, 3).t = "string"
           /\ NotAFunction(Arg(Head(inbox[d][s]).rest, 3).s))
            => /\ running' = running
               /\ open[s] =>
                    /\ inbox'[s][d] # <<>>
                    /\ inbox'[s][d][Len(inbox'[s][d])] =
                         Msg(Id(s), "onReturn",
                             <<Arg(Head(inbox[d][s]).rest, 2),
                               InvalidMethod(Arg(Head(inbox[d][s]).rest, 3))>>)]_vars

\* a tab that never asked for leadership called 'ns', which is an object, and
\* 'nope', which is no property, and both calls are rejected by the leader
C23_Witness ==
  \E t \in Tabs :
    /\ requests[t] = <<>>
    /\ \E c \in DOMAIN calls[t] :
         calls[t][c].name = Str("ns") /\ calls[t][c].outcome = InvalidRejection(Str("ns"))
    /\ \E c \in DOMAIN calls[t] :
         calls[t][c].name = Str("nope") /\ calls[t][c].outcome = InvalidRejection(Str("nope"))


\* the step is the second probe of a hasLeader() and hasLeader() resolves true
ProbeTrue ==
  /\ LockUnavailable
  /\ \/ \E t \in Tabs : \E c \in DOMAIN calls[t] : CallCheck2(t, c)
     \/ \E t \in Tabs : CtorCheck2(t)

\* C24: hasLeader() resolves true only when some tab has isLeader = true at
\* the time of the probe, and the CALL that call() posts after it is handled
\* by the tab it is delivered to, or is still to be delivered to another tab.
C24_HasLeader ==
  [][/\ ProbeTrue => \E u \in Tabs : isLeader[u]
     /\ \A d \in Tabs : \A s \in Tabs \ {d} :
          (/\ Deliver(d, s)
           /\ Head(inbox[d][s]).name = "onCall"
           /\ Head(inbox[d][s]).to = ToLeader)
            => \/ isLeader[d]
               \/ \E u \in Tabs \ {d, s} : \E i \in DOMAIN inbox[u][s] :
                    inbox[u][s][i] = Head(inbox[d][s])]_vars


(***************************************************************************)
(* One election of the heartbeat variant among NumVoters peers.  An        *)
(* ELECTION has been posted and is on its way to every peer (the peer that *)
(* posted it handles it first, inside postMessage).  No PING and no PONG   *)
(* is handled.  channel.postMessage queues a task on every destination at  *)
(* the time of the call, so at each peer the ELECTION is ahead of every    *)
(* PROMOTE that a handler of this ELECTION posts.                          *)
(***************************************************************************)
InitElection ==
  /\ TabFields(TRUE)
  /\ budget = Budget(0, 0, 0, 0)
  /\ PeerFields(0, 0)
  /\ \E t \in [Voters -> SUBSET Voters] : \E l \in [Voters -> Voters \cup {0}] :
       /\ \A v \in Voters : v \in t[v]
       /\ election = [tabs |-> t, leaderId |-> l,
                      settleTimers |-> [v \in Voters |-> 0],
                      handled |-> [v \in Voters |-> FALSE],
                      pending |-> [v \in Voters |-> {}],
                      arrived |-> [v \in Voters |-> <<>>]]
  /\ ack = NoAck /\ NoOthers

\* onElection() of peer v; postMessage(PROMOTE, id) hands the message to the
\* other peers and to onTabPromote of v itself
ElectionHandled(v) ==
  /\ ~election.handled[v]
  /\ LET E1 == [election EXCEPT !.handled[v] = TRUE, !.leaderId[v] = 0]
         E2 == [E1 EXCEPT !.pending = [u \in Voters |->
                                         IF u = v THEN @[u] ELSE @[u] \cup {v}]]
     IN election' = IF v = MaxKey(E1.tabs[v])
                      THEN HbOnTabPromote(HbOnTabPromote(E2, v, v), v, v)
                      ELSE E1
  /\ UNCHANGED <<hbVars, tabFields, ack, elector, spoke>>

\* the PROMOTE of peer id is delivered to peer v
PromoteArrives(v, id) ==
  /\ election.handled[v]
  /\ id \in election.pending[v]
  /\ election' = HbOnTabPromote([election EXCEPT !.pending[v] = @ \ {id},
                                                 !.arrived[v] = Append(@, id)], v, id)
  /\ UNCHANGED <<hbVars, tabFields, ack, elector, spoke>>

NextElection ==
  \/ \E v \in Voters : ElectionHandled(v)
  \/ \E v, id \in Voters : PromoteArrives(v, id)

SpecElection == InitElection /\ [][NextElection]_vars

\* every peer has handled the ELECTION and every PROMOTE is delivered
ElectionOver ==
  /\ \A v \in Voters : election.handled[v] /\ election.pending[v] = {}

\* C25: when several peers have broadcast PROMOTE after one ELECTION, and no
\* PING, PONG or other ELECTION was handled, then once every PROMOTE is
\* delivered every peer holds the greatest promoted id as leaderId.
C25_PromoteConverges ==
  (ElectionOver /\ Cardinality(Promoters) >= 2)
    => \A v \in Voters : election.leaderId[v] = MaxKey(Promoters)

\* all three peers promoted themselves and peer 1 received the PROMOTE of
\* the greatest id before the PROMOTE of a smaller one
C25_Witness ==
  /\ ElectionOver
  /\ Promoters = Voters
  /\ election.arrived[1] = <<3, 2>>
  /\ election.arrived[3] = <<2, 1>>


AsInvocation(e) ==
  [id |-> e.id, callNumber |-> e.key, name |-> e.name.s, rest |-> e.rest,
   callerIds |-> <<e.id, e.id>>]

\* C27: a call that a leader that is not ready yet puts in its queue is the
\* last entry of the queue, so that the order of the queue is the order in
\* which the calls were queued; when the
\* leader becomes ready every held call is invoked on the API, in that order,
\* and the queue is empty afterwards.
C27_QueueInOrder ==
  [][\A t \in Tabs :
       IF \E k \in DOMAIN requests[t] : InitDone(t, k)
         THEN LET made == BecomeReady(World, t, 1).invoked
              IN /\ queuedCalls'[t] = <<>>
                 /\ Len(made) = Len(queuedCalls[t])
                 /\ \A i \in DOMAIN made :
                      /\ made[i].tab = t
                      /\ made[i].inv = AsInvocation(queuedCalls[t][i])
                      /\ made[i].inv \in running'[t]
         ELSE (isLeader[t] /\ ~isLeaderReady[t])
                => \A i \in DOMAIN queuedCalls'[t] :
                     (\A j \in DOMAIN queuedCalls[t] : queuedCalls[t][j] # queuedCalls'[t][i])
                       => i = Len(queuedCalls'[t])]_vars


\* C28: send() hands its message to channel.postMessage and the sending peer
\* does not run its own onMessage for it, also when its channel was closed
\* and the message is posted again on a new channel.
C28_DontReceive ==
  [][\A p \in Peers :
       HbSend(p)
         => LET B == HbPostMessage(Beat, p, ReceiveMsg(Num(0)), FALSE)
            IN /\ posted' = <<ReceiveMsg(Num(0))>>
               /\ \A i \in DOMAIN B.handled : B.handled[i].peer # p]_vars


(***************************************************************************)
(* Tab with call acknowledgement (dist/index.js): a tab that is not the    *)
(* leader and calls the leader of its namespace.  The leader is ready, or  *)
(* frozen: a tab that holds the lock and handles no message any more.      *)
(* A resend timer is [call |-> c, n |-> k], the timer set by the k-th      *)
(* send() of call c; NoTimer is the value of _sentCalls.get() for a        *)
(* missing key.                                                            *)
(***************************************************************************)
AckCallNumbers == 1..AckCalls
NoTimer == [call |-> 0, n |-> 0]

AckStart ==
  [callCount |-> 0,
   callDeferreds |-> {},                               \* _callDeferreds
   sentCalls |-> [c \in AckCallNumbers |-> NoTimer],   \* _sentCalls
   timers |-> {},                                      \* the 500 ms timers that are set
   posts |-> [c \in AckCallNumbers |-> 0],             \* how often the CALL was posted
   outcome |-> [c \in AckCallNumbers |-> "none"],      \* the promise call() returned
   toLeader |-> <<>>,                                  \* messages posted, not yet handled
   toCaller |-> <<>>,
   running |-> [c \in AckCallNumbers |-> 0],           \* invocations whose promise is pending
   invoked |-> [c \in AckCallNumbers |-> 0],           \* how often the API method was invoked
   leader |-> "ready"]

\* send() of call(): set the timer, remember it, post the CALL
AckSendCall(A, c) ==
  LET t == [call |-> c, n |-> A.posts[c] + 1]
  IN [A EXCEPT !.timers = @ \cup {t},
               !.sentCalls[c] = t,
               !.posts[c] = @ + 1,
               !.toLeader = Append(@, c)]

\* _callReceived that ignores the acknowledgement
CallReceivedIgnored(A, callNumber) == A

\* _callReceived(callNumber)
CallReceived(A, callNumber) ==
  LET t == A.sentCalls[callNumber]
  IN IF t # NoTimer
       THEN [A EXCEPT !.timers = @ \ {t}, !.sentCalls[callNumber] = NoTimer]
       ELSE A

\* _onReturn(callNumber, error, results)
AckOnReturn(A, callNumber) ==
  LET A1 == IF A.sentCalls[callNumber] # NoTimer THEN CallReceived(A, callNumber) ELSE A
  IN IF callNumber \notin A1.callDeferreds
       THEN A1  \* console.error('No deferred found for call')
       ELSE [A1 EXCEPT !.callDeferreds = @ \ {callNumber},
                       !.outcome[callNumber] = "resolved"]

AckStep(A) == ack' = A /\ UNCHANGED <<hbVars, tabFields, election, elector, spoke>>

\* call(name, ...rest) of the tab, hasLeader() having answered true
AckCall ==
  /\ ack.callCount < AckCalls
  /\ LET c == ack.callCount + 1
     IN AckStep(AckSendCall([ack EXCEPT !.callCount = c,
                                        !.callDeferreds = @ \cup {c},
                                        !.outcome[c] = "pending"], c))

\* the 500 ms timer t fires: () => this._sentCalls.has(callNumber) && send()
AckResend(t) ==
  /\ t \in ack.timers
  /\ ack.posts[t.call] < MaxPosts
  /\ LET A == [ack EXCEPT !.timers = @ \ {t}]
     IN AckStep(IF A.sentCalls[t.call] # NoTimer THEN AckSendCall(A, t.call) ELSE A)

\* the 30 s timer of call c fires
AckTimeout(c) ==
  /\ c \in ack.callDeferreds
  /\ AckStep([ack EXCEPT !.callDeferreds = @ \ {c}, !.outcome[c] = "rejected"])

\* _onCall of the leader up to `await promise`: it acknowledges, then
\* invokes the API method
AckLeaderOnCall ==
  /\ ack.leader = "ready"
  /\ ack.toLeader # <<>>
  /\ LET c == Head(ack.toLeader)
     IN AckStep([ack EXCEPT !.toLeader = Tail(@),
                            !.toCaller = Append(@, [name |-> "callReceived", callNumber |-> c]),
                            !.running[c] = @ + 1,
                            !.invoked[c] = @ + 1])

\* the promise of an invocation is fulfilled: the leader posts the RETURN
AckLeaderReturn(c) ==
  /\ ack.leader = "ready"
  /\ ack.running[c] > 0
  /\ AckStep([ack EXCEPT !.running[c] = @ - 1,
                         !.toCaller = Append(@, [name |-> "onReturn", callNumber |-> c])])

\* the leader's tab is frozen
AckLeaderFreezes ==
  /\ ack.leader = "ready"
  /\ AckStep([ack EXCEPT !.leader = "frozen"])

\* _onMessage of the calling tab
AckDeliver ==
  /\ ack.toCaller # <<>>
  /\ LET m == Head(ack.toCaller)
         A == [ack EXCEPT !.toCaller = Tail(@)]
     IN AckStep(IF m.name = "callReceived" THEN CallReceived(A, m.callNumber)
                ELSE AckOnReturn(A, m.callNumber))

InitAck ==
  /\ TabFields(TRUE)
  /\ budget = Budget(0, 0, 0, 0)
  /\ PeerFields(0, 0)
  /\ election = NoElection
  /\ ack = AckStart
  /\ NoOthers

NextAck ==
  \/ AckCall
  \/ \E t \in ack.timers : AckResend(t)
  \/ \E c \in AckCallNumbers : AckTimeout(c)
  \/ AckLeaderOnCall
  \/ \E c \in AckCallNumbers : AckLeaderReturn(c)
  \/ AckLeaderFreezes
  \/ AckDeliver

SpecAck == InitAck /\ [][NextAck]_vars

\* a timer that is set fires, a posted message is handled by a tab that is
\* not frozen, and an invocation settles
AckTimerIds == [call : AckCallNumbers, n : 1..MaxPosts]
FairAck ==
  /\ SpecAck
  /\ \A t \in AckTimerIds : WF_vars(AckResend(t))
  /\ WF_vars(AckLeaderOnCall)
  /\ \A c \in AckCallNumbers : WF_vars(AckLeaderReturn(c))
  /\ WF_vars(AckDeliver)


\* _sentCalls.has(c)
Unacknowledged(c) == ack.sentCalls[c] # NoTimer

\* the calling tab handles message `name` for call c in this step
AckHandles(name, c) ==
  /\ AckDeliver
  /\ Head(ack.toCaller) = [name |-> name, callNumber |-> c]

\* C29: a CALL sent to a remote leader is posted again by a 500 ms timer for
\* as long as neither a callReceived nor a RETURN for its call number has
\* been handled; callReceived removes the timer and leaves the call pending,
\* and the call is settled only by its RETURN or by its timeout.
C29_ResendUntilReceived ==
  /\ [](\A c \in AckCallNumbers : Unacknowledged(c) => ack.sentCalls[c] \in ack.timers)
  /\ \A c \in AckCallNumbers : \A n \in 1..(MaxPosts - 1) :
       (Unacknowledged(c) /\ ack.posts[c] = n)
         ~> (ack.posts[c] > n \/ ~Unacknowledged(c))
  /\ [][\A c \in AckCallNumbers :
          /\ (Unacknowledged(c) /\ ~Unacknowledged(c)')
               => (AckHandles("callReceived", c) \/ AckHandles("onReturn", c))
          /\ (ack.posts[c] > 0 /\ ack'.posts[c] > ack.posts[c])
               => /\ Unacknowledged(c)
                  /\ \E t \in ack.timers : t.call = c /\ AckResend(t)
          /\ AckHandles("callReceived", c)
               => /\ ~Unacknowledged(c)'
                  /\ \A t \in ack'.timers : t.call # c
                  /\ ack'.callDeferreds = ack.callDeferreds
                  /\ ack'.outcome = ack.outcome
                  /\ ack'.posts = ack.posts
          /\ (ack.outcome[c] = "pending" /\ ack'.outcome[c] # "pending")
               => (AckHandles("onReturn", c) \/ AckTimeout(c))]_vars

\* a call that was posted again and then acknowledged, and is still pending
C29_Witness ==
  \E c \in AckCallNumbers :
    /\ ack.callCount >= c
    /\ ack.posts[c] >= 2
    /\ ~Unacknowledged(c)
    /\ c \in ack.callDeferreds
    /\ ack.outcome[c] = "pending"


\* C30: getCurrentCallerId() returns the caller's id from the start to the
\* end of the synchronous execution of an API method the leader invoked for
\* that caller, and undefined when no API method is executing synchronously.
C30_CallerId ==
  \A t \in Tabs :
    /\ callerId[t] = Undef
    /\ \A inv \in running[t] : inv.callerIds = <<inv.id, inv.id>>


\* t holds the lock, its callback has set _isLeader and no other tab says
\* it is the leader
HoldsLeadership(t) ==
  /\ isLeader[t] /\ lockHeld.kind = "req" /\ lockHeld.tab = t
  /\ \A u \in Tabs \ {t} : ~isLeader[u]

\* C31: while a tab is the leader (it holds the lock and is the only tab
\* that says it is the leader) its state changes only in its own setState; a message of another
\* tab does not change it.
C31_LeaderOwnsState ==
  [][\A t \in Tabs :
       (HoldsLeadership(t) /\ HoldsLeadership(t)' /\ state'[t] # state[t])
         => \E v \in StateValues : SetState(t, v)]_vars

\* setState has not been called since a tab last became a ready leader
NoSetStateSinceReady == budget.setStates = readyAt

\* C32: the step in which a tab becomes a ready leader posts onLeader with
\* its state to every other open tab; when afterwards no message is in
\* flight, setState not having been called since, every open tab has the
\* state of the leader.
C32_NewLeaderState ==
  /\ [][\A t \in Tabs : \A k \in DOMAIN requests[t] :
          InitDone(t, k)
            => \A d \in Tabs \ {t} :
                 open[d] => /\ inbox'[d][t] # <<>>
                            /\ inbox'[d][t][Len(inbox'[d][t])] =
                                 Msg(ToOthers, "onLeader", <<state'[t]>>)]_vars
  /\ [](\A L \in Tabs :
          (SettledLeader(L) /\ NoMessages /\ NoSetStateSinceReady)
            => \A t \in Tabs : open[t] => state[t] = state[L])


(***************************************************************************)
(* LeaderElector: election through a localStorage record                   *)
(***************************************************************************)
NumElectors == 2
ElectorStarts == 2
ElectorCloses == 1
ClockStep == 500
MaxLate == 2000

VOTE_PERIOD == 500
HEARTBEAT == 500
ELECTION_MIN == 2000
ELECTION_MAX == 3000

Electors == 1..NumElectors

\* localStorage.getItem(...) is null
NoRecord == [nodeId |-> 0, age |-> 0]
\* no timer is set
NoTimeout == [kind |-> "none", due |-> 0]

\* Math.round(ELECTION_MAX - ELECTION_MIN * Math.random()) + ELECTION_MIN,
\* on the grid of the clock
Intervals ==
  {i \in (ELECTION_MAX - ELECTION_MIN + ELECTION_MIN)..(ELECTION_MAX + ELECTION_MIN) :
     i % ClockStep = 0}

\* How late the timers of an elector may fire: setTimeout promises no upper
\* bound, and browsers throttle the timers of a tab in the background.
Lates == {0, MaxLate}

\* new LeaderElector(name) for every elector.  record.age is
\* Date.now() - timestamp, timeout[e].due the time until the timer is due.
ElectorStart(late) ==
  [state |-> [e \in Electors |-> "closed"],
   timeout |-> [e \in Electors |-> NoTimeout],
   record |-> NoRecord,
   callbacks |-> [e \in Electors |-> 0],
   late |-> late,
   starts |-> ElectorStarts,
   closes |-> ElectorCloses]

\* setLeaderInfo(name, nodeId)
SetLeaderInfo(E, e) == [E EXCEPT !.record = [nodeId |-> e, age |-> 0]]

\* hasLeader()
HasLeader(E) == E.record # NoRecord /\ E.record.age < ELECTION_MIN

\* becomeCandidate()
BecomeCandidate(E, e) ==
  SetLeaderInfo([E EXCEPT !.state[e] = "candidate",
                          !.timeout[e] = [kind |-> "vote", due |-> VOTE_PERIOD]], e)

\* checkLeadership() of becomeFollower()
CheckLeadership(E, e, interval) ==
  IF ~HasLeader(E) THEN BecomeCandidate(E, e)
  ELSE [E EXCEPT !.timeout[e] = [kind |-> "check", due |-> interval]]

\* becomeFollower()
BecomeFollower(E, e, interval) ==
  CheckLeadership([E EXCEPT !.state[e] = "follower", !.timeout[e] = NoTimeout], e, interval)

\* heartbeat() of becomeLeader()
Heartbeat(E, e) ==
  SetLeaderInfo([E EXCEPT !.timeout[e] = [kind |-> "heartbeat", due |-> HEARTBEAT]], e)

\* becomeLeader()
BecomeLeader(E, e) ==
  [Heartbeat([E EXCEPT !.state[e] = "leader", !.timeout[e] = NoTimeout], e)
     EXCEPT !.callbacks[e] = @ + 1]

\* the callback of becomeCandidate()'s timer; leader.nodeId of a null record
\* throws a TypeError
VoteEnds(E, e, interval) ==
  IF E.record = NoRecord THEN E
  ELSE IF E.record.nodeId = e THEN BecomeLeader(E, e)
       ELSE BecomeFollower(E, e, interval)

ElectorStep(E) == elector' = E /\ UNCHANGED <<hbVars, tabFields, election, ack, spoke>>

\* elector.waitForLeadership(callback)
ElectorWaitForLeadership(e) ==
  /\ elector.starts > 0
  /\ \E i \in Intervals :
       ElectorStep(BecomeFollower([elector EXCEPT !.starts = @ - 1], e, i))

\* elector.close()
ElectorClose(e) ==
  /\ elector.closes > 0
  /\ LET E1 == [elector EXCEPT !.closes = @ - 1, !.timeout[e] = NoTimeout]
         E2 == IF E1.state[e] = "leader" /\ E1.record # NoRecord /\ E1.record.nodeId = e
                 THEN [E1 EXCEPT !.record = NoRecord] ELSE E1
     IN ElectorStep([E2 EXCEPT !.state[e] = "closed"])

\* the timer of elector e fires
ElectorTimeout(e) ==
  /\ elector.timeout[e].kind # "none"
  /\ elector.timeout[e].due <= 0
  /\ LET kind == elector.timeout[e].kind
         E == [elector EXCEPT !.timeout[e] = NoTimeout]
     IN \E i \in Intervals :
          ElectorStep(CASE kind = "check" -> CheckLeadership(E, e, i)
                        [] kind = "vote" -> VoteEnds(E, e, i)
                        [] OTHER -> Heartbeat(E, e))

\* ClockStep milliseconds pass; a timer that is due has fired unless the
\* elector's timers may be late
ElectorTick ==
  /\ \A e \in Electors :
       elector.timeout[e].kind # "none" => elector.timeout[e].due > 0 - elector.late[e]
  /\ ElectorStep([elector EXCEPT
       !.timeout = [e \in Electors |->
                      IF @[e].kind = "none" THEN @[e]
                      ELSE [@[e] EXCEPT !.due = @ - ClockStep]],
       !.record = IF @ = NoRecord THEN @
                  ELSE [@ EXCEPT !.age = Min(@ + ClockStep, ELECTION_MIN)]])

InitElector ==
  /\ TabFields(TRUE)
  /\ budget = Budget(0, 0, 0, 0)
  /\ PeerFields(0, 0)
  /\ election = NoElection
  /\ ack = NoAck
  /\ spoke = NoSpoke
  /\ \E late \in [Electors -> Lates] : elector = ElectorStart(late)

NextElector ==
  \/ \E e \in Electors : ElectorWaitForLeadership(e)
  \/ \E e \in Electors : ElectorClose(e)
  \/ \E e \in Electors : ElectorTimeout(e)
  \/ ElectorTick

SpecElector == InitElector /\ [][NextElector]_vars

\* the electors whose state is 'leader'
ElectedLeaders == {e \in Electors : elector.state[e] = "leader"}

\* C33: at most one elector of a name is in state 'leader' at any time.
C33_OneElectedLeader == Cardinality(ElectedLeaders) <= 1


(***************************************************************************)
(* Spoke: recovery of a worker whose heartbeat stopped                     *)
(***************************************************************************)
NumSpokes == 2
MaxAttempt == 3
SpokeCloses == 1

Spokes == 1..NumSpokes
Attempts == 1..MaxAttempt
WorkerKinds == {"SharedWorker", "Worker"}

\* The spokes of one hub, all constructed with a worker of the same kind.
\* worker[s] is the number of the recovery that created the spoke's worker,
\* replaced[s][n] counts the workers that _recover(n) created, calls[s][n]
\* says who called _recover(n), inbox[d][s] are the attempt numbers of the
\* 'tab-election:recover' messages of s not yet delivered to d.
SpokeStart(kind) ==
  [kind |-> kind,
   recoveryAttempt |-> [s \in Spokes |-> 0],
   isLeader |-> [s \in Spokes |-> FALSE],
   monitoring |-> [s \in Spokes |-> TRUE],
   worker |-> [s \in Spokes |-> 0],
   replaced |-> [s \in Spokes |-> [n \in Attempts |-> 0]],
   calls |-> [s \in Spokes |-> [n \in Attempts |-> {}]],
   inbox |-> [d \in Spokes |-> [s \in Spokes |-> <<>>]],
   closes |-> SpokeCloses]

\* _recover with `attempt < this._recoveryAttempt` as its guard
RecoverAgain(S, s, attempt, by) ==
  LET S1 == [S EXCEPT !.calls[s][attempt] = @ \cup {by}]
  IN IF attempt < S1.recoveryAttempt[s] THEN S1
     ELSE [S1 EXCEPT !.recoveryAttempt[s] = attempt,
                     !.worker[s] = attempt,
                     !.replaced[s][attempt] = @ + 1]

\* _recover(attempt), called by the heartbeat check or by the message listener
Recover(S, s, attempt, by) ==
  LET S1 == [S EXCEPT !.calls[s][attempt] = @ \cup {by}]
  IN IF attempt <= S1.recoveryAttempt[s] THEN S1
     ELSE [S1 EXCEPT !.recoveryAttempt[s] = attempt,
                     !.worker[s] = attempt,
                     !.replaced[s][attempt] = @ + 1]

\* this.tab.send({ type: 'tab-election:recover', attempt })
SendRecover(S, s, attempt) ==
  [S EXCEPT !.inbox = [d \in Spokes |->
                         IF d = s THEN @[d] ELSE [@[d] EXCEPT ![s] = Append(@, attempt)]]]

SpokeStep(S) == spoke' = S /\ UNCHANGED <<hbVars, tabFields, election, ack, elector>>

\* The timer of check() fires; stale says that a heartbeat was received and
\* the last one is older than the spoke's timeout.
SpokeCheck(s, stale) ==
  /\ spoke.monitoring[s]
  /\ spoke.recoveryAttempt[s] < MaxAttempt
  /\ LET attempt == spoke.recoveryAttempt[s] + 1
     IN SpokeStep(
          IF ~stale THEN spoke
          ELSE IF spoke.kind = "SharedWorker"
            THEN Recover(SendRecover(spoke, s, attempt), s, attempt, "check")
          ELSE IF spoke.isLeader[s] THEN Recover(spoke, s, attempt, "check")
          ELSE spoke)

\* the message listener of the spoke handles a 'tab-election:recover'
SpokeDeliver(d, s) ==
  /\ spoke.inbox[d][s] # <<>>
  /\ LET S == [spoke EXCEPT !.inbox[d][s] = Tail(@)]
         attempt == Head(spoke.inbox[d][s])
     IN SpokeStep(IF S.kind = "SharedWorker" THEN Recover(S, d, attempt, "message") ELSE S)

\* the worker posts 'tab-election:leadership'
SpokeLeadership(s, b) ==
  /\ spoke.kind = "Worker"
  /\ spoke.isLeader[s] # b
  /\ SpokeStep([spoke EXCEPT !.isLeader[s] = b])

\* spoke.close(): the check timer is cleared, the message listener stays
SpokeClose(s) ==
  /\ spoke.closes > 0
  /\ SpokeStep([spoke EXCEPT !.closes = @ - 1, !.monitoring[s] = FALSE])

InitSpoke ==
  /\ TabFields(TRUE)
  /\ budget = Budget(0, 0, 0, 0)
  /\ PeerFields(0, 0)
  /\ election = NoElection
  /\ ack = NoAck
  /\ elector = NoElector
  /\ \E kind \in WorkerKinds : spoke = SpokeStart(kind)

NextSpoke ==
  \/ \E s \in Spokes : \E stale \in BOOLEAN : SpokeCheck(s, stale)
  \/ \E d, s \in Spokes : SpokeDeliver(d, s)
  \/ \E s \in Spokes : \E b \in BOOLEAN : SpokeLeadership(s, b)
  \/ \E s \in Spokes : SpokeClose(s)

SpecSpoke == InitSpoke /\ [][NextSpoke]_vars

\* C34: _recover(n) replaces the worker only when n is greater than the
\* spoke's _recoveryAttempt, so _recoveryAttempt never decreases and each
\* attempt number replaces the worker of a spoke at most once, also when the
\* spoke's own check and a broadcast call _recover with the same number.
C34_RecoverOnce ==
  /\ [](\A s \in Spokes : \A n \in Attempts : spoke.replaced[s][n] <= 1)
  /\ [][\A s \in Spokes :
          /\ spoke'.recoveryAttempt[s] >= spoke.recoveryAttempt[s]
          /\ \A n \in Attempts :
               spoke'.replaced[s][n] > spoke.replaced[s][n]
                 => /\ n > spoke.recoveryAttempt[s]
                    /\ spoke'.recoveryAttempt[s] = n]_vars

\* a spoke whose own check and a broadcast both called _recover(n), and
\* whose worker was replaced once for n
C34_Witness ==
  \E s \in Spokes : \E n \in Attempts :
    /\ spoke.calls[s][n] = {"check", "message"}
    /\ spoke.replaced[s][n] = 1


\* the waitForLeadership invocations of t whose lock callback has run and
\* whose finally block has not
CurrentTerms(t) ==
  {k \in DOMAIN requests[t] :
     requests[t][k].pc \in {"init", "initRel", "ready", "released", "failed"}}

\* C35: _isLeaderReady is true only while _isLeader is true and _api is the
\* method table that the initializer of the current leadership term returned.
C35_ReadyOnlyAsLeader ==
  \A t \in Tabs :
    isLeaderReady[t] => (isLeader[t] /\ api[t] \in CurrentTerms(t))


\* the promise of call c of tab t was rejected by its 30-second timeout
RejectedByTimeout(t, c) ==
  /\ c \in DOMAIN calls[t]
  /\ calls[t][c].timer = "fired"
  /\ calls[t][c].outcome = TimedOut

\* C36: a call whose promise was rejected by the 30-second timeout has no
\* entry in a queue of calls, and no step afterwards invokes an API method
\* of a leader for it.
C36_TimedOutNotDispatched ==
  /\ [](\A t \in Tabs : \A c \in DOMAIN calls[t] :
          RejectedByTimeout(t, c)
            => \A u \in Tabs : \A i \in DOMAIN queuedCalls[u] :
                 ~(queuedCalls[u][i].id = Id(t) /\ queuedCalls[u][i].key = Num(c)))
  /\ [][\A t \in Tabs : \A c \in DOMAIN calls[t] :
          RejectedByTimeout(t, c)
            => \A L \in Tabs : \A inv \in running'[L] \ running[L] :
                 ~(inv.id = Id(t) /\ inv.callNumber = Num(c))]_vars


\* C37: one call() causes at most one invocation of the leader's API method,
\* whatever the delays of the messages and of the resend timer.
C37_OneInvocation == \A c \in AckCallNumbers : ack.invoked[c] <= 1

\* the promise of call c has settled
AckSettled(c) == ack.outcome[c] \in {"resolved", "rejected"}

\* C38: once a call's promise has settled, by its RETURN or by the 30-second
\* timeout, no further CALL for its call number is posted and its resend
\* timer is not set.
C38_SettledCallIsQuiet ==
  /\ [](\A c \in AckCallNumbers :
          AckSettled(c) => (~Unacknowledged(c) /\ \A t \in ack.timers : t.call # c))
  /\ [][\A c \in AckCallNumbers :
          AckSettled(c) => ack'.posts[c] = ack.posts[c]]_vars


\* C39: a peer that has called close() passes nothing more to
\* channel.postMessage and handles no incoming message, and the callbacks
\* scheduled before close() (of sendHeartbeat and of onTabPromote) leave its
\* channel closed.
C39_ClosedPeerIsSilent ==
  /\ [](\A p \in Peers : peer[p] = "closed" => ~channel[p])
  /\ [][\A p \in Peers :
          peer[p] = "closed"
            => /\ (HbReap(p) \/ HbSettle(p) \/ HbHeartbeat(p)) => posted' = <<>>
               /\ \A s \in Peers : ~HbDeliver(p, s)]_vars


\* The callback of sendHeartbeat() runs PING_TIMEOUT after it whether or not
\* the PONGs have come back: a peer whose tab is busy or throttled for more
\* than 50 ms answers later.
HbReapEarly(p) ==
  /\ reapTimer[p]
  /\ LET B1 == CloseStale(Beat, p, 1)
     IN CommitBeat(IF B1.leaderId[p] = 0 \/ B1.tabs[p][B1.leaderId[p]] = "none"
                     THEN HbPostMessage(B1, p, HbMsg(ELECTION, 0, FALSE), TRUE) ELSE B1)
  /\ reapTimer' = [reapTimer EXCEPT ![p] = FALSE]
  /\ UNCHANGED <<peer, onLeadership, hbApi, heartbeatTimeout, closedAs, hbBudget, tabFields, otherVars>>

\* peers that may answer a PING late; none closes or crashes
NextBeatSlow ==
  \/ \E p \in Peers : HbStart(p)
  \/ \E p \in Peers : HbHeartbeat(p)
  \/ \E p \in Peers : HbReapEarly(p)
  \/ \E p \in Peers : HbSettle(p)
  \/ \E d, s \in Peers : HbDeliver(d, s)

SpecBeatSlow == InitBeat /\ [][NextBeatSlow]_vars

\* a peer that takes part in elections and has not called close()
Member(p) == peer[p] = "live"

\* C40: a non-spectator peer that has not called close() has its own id in
\* its membership table, so that it counts itself in maxId on ELECTION, also
\* after another peer has broadcast CLOSE for it.
C40_SelfInTable == \A p \in Peers : Member(p) => tabs[p][p] # "none"

====
